---- MODULE Spec2Model ----
(***************************************************************************)
(* Model of the travel-cost pipeline: date-range resolution from file      *)
(* names (scripts/utils/date_matcher.py), file classification and roster   *)
(* matching (scripts/utils/file_scanner.py) and the cumulative roster      *)
(* index (scripts/process_roster.py), the department lookup of the vendor  *)
(* adapters (scripts/process_*.py) and the summary and indexes of the      *)
(* merge (scripts/merge_data.py).                                          *)
(*                                                                         *)
(* Python strings are modelled as sequences of one-character strings, so   *)
(* that regular-expression search, slicing, int() conversion, formatting   *)
(* and the lexicographic comparison of month keys are computed as the code *)
(* computes them.                                                          *)
(***************************************************************************)
EXTENDS Integers, Sequences, FiniteSets, TLC

VARIABLES
    pc,                 \* position of the modelled call
    filename,           \* scan_and_classify_files: name of the travel file
    date_range,         \* TravelFileInfo.date_range (or the raised exception)
    target_month,       \* TravelFileInfo.target_month
    travel_month,       \* find_matching_roster_file: argument travel_month
    available_rosters,  \* find_matching_roster_file: argument available_rosters
    matching_roster,    \* TravelFileInfo.matching_roster
    roster_index,       \* content of roster_index.json
    by_month,           \* content of by-month/<month>.json, per month
    call,               \* arguments and outcome of the last process_roster call
    ingested,           \* per (name, month), the departments last passed to update_roster_index
    ingests,            \* number of process_roster calls so far
    travel_records,     \* records a vendor adapter extracted from the travel file
    records,            \* merge_data: the merged record list
    summary,            \* merge_data: build_summary(records)
    indexes,            \* merge_data: build_indexes(records)
    raw_dir,            \* process_all_files: the directory of the source files
    shards,             \* the travel files of by-month, in the order glob lists them
    travel_data,        \* travel-data.json: months and sources of the merged dataset
    run,                \* process_all_files: progress and outcome of the runs
    writers             \* concurrent update_roster_index calls: position and index read

vars == <<pc, filename, date_range, target_month, travel_month,
          available_rosters, matching_roster, roster_index, by_month,
          call, ingested, ingests, travel_records, records, summary, indexes,
          raw_dir, shards, travel_data, run, writers>>

\* Python's None where a string is expected: no string of characters equals it.
None == <<"None">>

(***************************************************************************)
(* Strings                                                                 *)
(***************************************************************************)
Digits == {"0", "1", "2", "3", "4", "5", "6", "7", "8", "9"}

DigitSeq == <<"0", "1", "2", "3", "4", "5", "6", "7", "8", "9">>

IsDigit(c) == c \in Digits

DigitVal(c) == CHOOSE v \in 0..9 : DigitSeq[v + 1] = c

Upper == <<"A", "B", "C", "D", "E", "F", "G", "H", "I", "J", "K", "L", "M",
           "N", "O", "P", "Q", "R", "S", "T", "U", "V", "W", "X", "Y", "Z">>

Lower == <<"a", "b", "c", "d", "e", "f", "g", "h", "i", "j", "k", "l", "m",
           "n", "o", "p", "q", "r", "s", "t", "u", "v", "w", "x", "y", "z">>

\* A character outside ASCII is written as its code point.
Han ==
    <<[c |-> "U+4EFD", n |-> 20221],
     [c |-> "U+5458", n |-> 21592],
     [c |-> "U+5546", n |-> 21830],
     [c |-> "U+5728", n |-> 22312],
     [c |-> "U+5DE5", n |-> 24037],
     [c |-> "U+643A", n |-> 25658],
     [c |-> "U+65C5", n |-> 26053],
     [c |-> "U+6708", n |-> 26376],
     [c |-> "U+672A", n |-> 26410],
     [c |-> "U+6765", n |-> 26469],
     [c |-> "U+6E90", n |-> 28304],
     [c |-> "U+77E5", n |-> 30693],
     [c |-> "U+7A0B", n |-> 31243],
     [c |-> "U+9014", n |-> 36884],
     [c |-> "U+90E8", n |-> 37096],
     [c |-> "U+91CC", n |-> 37324],
     [c |-> "U+95E8", n |-> 38376],
     [c |-> "U+963F", n |-> 38463]>>

IndexIn(seq, c) == CHOOSE i \in 1..Len(seq) : seq[i] = c

\* Code point of a character ('-' sorts before the digits, the digits before
\* the letters, capitals before small letters, ASCII before the rest).
Ord(c) ==
    IF c = "-" THEN 45
    ELSE IF IsDigit(c) THEN 48 + DigitVal(c)
    ELSE IF c = " " THEN 32
    ELSE IF c = "." THEN 46
    ELSE IF c = "/" THEN 47
    ELSE IF c = ":" THEN 58
    ELSE IF \E i \in 1..Len(Upper) : Upper[i] = c THEN 64 + IndexIn(Upper, c)
    ELSE IF \E i \in 1..Len(Lower) : Lower[i] = c THEN 96 + IndexIn(Lower, c)
    ELSE Han[CHOOSE i \in 1..Len(Han) : Han[i].c = c].n

\* int(s) for a string of decimal digits.
RECURSIVE ToInt(_)
ToInt(s) == IF s = <<>> THEN 0
            ELSE 10 * ToInt(SubSeq(s, 1, Len(s) - 1)) + DigitVal(s[Len(s)])

\* str(n) for n >= 0: decimal digits, no padding.
RECURSIVE Str(_)
Str(n) == IF n < 10 THEN <<DigitSeq[n + 1]>>
          ELSE Str(n \div 10) \o <<DigitSeq[(n % 10) + 1]>>

\* format(n, '02d'): zero-padded to at least two digits.
Fmt02(n) == IF n < 10 THEN <<"0">> \o Str(n) ELSE Str(n)

\* format(n, '04d'), as strftime('%Y') pads a four-digit year.
Fmt04(n) == IF n < 10 THEN <<"0", "0", "0">> \o Str(n)
            ELSE IF n < 100 THEN <<"0", "0">> \o Str(n)
            ELSE IF n < 1000 THEN <<"0">> \o Str(n)
            ELSE Str(n)

\* a < b on Python strings: lexicographic by code point, a proper prefix first.
RECURSIVE StrLess(_, _)
StrLess(a, b) ==
    IF b = <<>> THEN FALSE
    ELSE IF a = <<>> THEN TRUE
    ELSE IF Head(a) = Head(b) THEN StrLess(Tail(a), Tail(b))
    ELSE Ord(Head(a)) < Ord(Head(b))

StrLE(a, b) == a = b \/ StrLess(a, b)

Min(S) == CHOOSE x \in S : \A y \in S : x <= y

\* re.search(r'(\d{n})-(\d{n})', s): 1-based start of the leftmost match, 0 if none.
SearchPair(s, n) ==
    LET hits == {i \in 1..Len(s) :
                    /\ i + 2 * n <= Len(s)
                    /\ \A k \in 0..(n - 1) : IsDigit(s[i + k])
                    /\ s[i + n] = "-"
                    /\ \A k \in 1..n : IsDigit(s[i + n + k])}
    IN IF hits = {} THEN 0 ELSE Min(hits)

\* re.search(r'(\d{n})', s): 1-based start of the leftmost match, 0 if none.
SearchDigits(s, n) ==
    LET hits == {i \in 1..Len(s) :
                    /\ i + n - 1 <= Len(s)
                    /\ \A k \in 0..(n - 1) : IsDigit(s[i + k])}
    IN IF hits = {} THEN 0 ELSE Min(hits)

(***************************************************************************)
(* datetime.date                                                           *)
(***************************************************************************)
IsLeap(y) == (y % 4 = 0) /\ ((y % 100 # 0) \/ (y % 400 = 0))

DaysInMonth(y, m) ==
    IF m = 2 THEN (IF IsLeap(y) THEN 29 ELSE 28)
    ELSE IF m \in {4, 6, 9, 11} THEN 30 ELSE 31

\* date(y, m, d) does not raise ValueError.
ValidDate(y, m, d) ==
    /\ y >= 1 /\ y <= 9999
    /\ m >= 1 /\ m <= 12
    /\ d >= 1 /\ d <= DaysInMonth(y, m)

Date(y, m, d) == [y |-> y, m |-> m, d |-> d]

DateLE(a, b) ==
    \/ a.y < b.y
    \/ a.y = b.y /\ a.m < b.m
    \/ a.y = b.y /\ a.m = b.m /\ a.d <= b.d

\* date.max: adding a day to it raises OverflowError.
IsMaxDate(a) == a.y = 9999 /\ a.m = 12 /\ a.d = 31

\* date.min: subtracting a day from it raises OverflowError.
IsMinDate(a) == a.y = 1 /\ a.m = 1 /\ a.d = 1

\* a + timedelta(days=1), for a below date.max.
NextDay(a) ==
    IF a.d < DaysInMonth(a.y, a.m) THEN Date(a.y, a.m, a.d + 1)
    ELSE IF a.m < 12 THEN Date(a.y, a.m + 1, 1)
    ELSE Date(a.y + 1, 1, 1)

\* a - timedelta(days=1), for a above date.min.
PrevDay(a) ==
    IF a.d > 1 THEN Date(a.y, a.m, a.d - 1)
    ELSE IF a.m > 1 THEN Date(a.y, a.m - 1, DaysInMonth(a.y, a.m - 1))
    ELSE Date(a.y - 1, 12, 31)

\* Days before the first day of month m of year y.
RECURSIVE DaysBeforeMonth(_, _)
DaysBeforeMonth(y, m) ==
    IF m <= 1 THEN 0 ELSE DaysBeforeMonth(y, m - 1) + DaysInMonth(y, m - 1)

\* date.toordinal(): the proleptic Gregorian ordinal, 0001-01-01 being day 1.
Ordinal(a) ==
    LET p == a.y - 1
    IN p * 365 + (p \div 4) - (p \div 100) + (p \div 400)
         + DaysBeforeMonth(a.y, a.m) + a.d

\* current.strftime('%Y-%m')
MonthKey(y, m) == Fmt04(y) \o <<"-">> \o Fmt02(m)

Strftime(a) == MonthKey(a.y, a.m)

(***************************************************************************)
(* DateRange and parse_date_range_from_filename (date_matcher.py)          *)
(***************************************************************************)
\* A dict in insertion order: a sequence of [k, v] items with distinct keys.
DictHas(d, k) == \E i \in 1..Len(d) : d[i].k = k

DictGet(d, k, default) ==
    IF DictHas(d, k) THEN d[CHOOSE i \in 1..Len(d) : d[i].k = k].v ELSE default

\* d[k] = v: an existing key keeps its position, a new key goes last.
DictSet(d, k, v) ==
    IF DictHas(d, k)
    THEN [i \in 1..Len(d) |-> IF d[i].k = k THEN [k |-> k, v |-> v] ELSE d[i]]
    ELSE Append(d, [k |-> k, v |-> v])

DictKeys(d) == {d[i].k : i \in 1..Len(d)}

RECURSIVE SumValues(_)
SumValues(d) == IF d = <<>> THEN 0 ELSE Head(d).v + SumValues(Tail(d))

\* No date: what extract_date_from_string returns as None.
NoDate == Date(0, 0, 0)

NoRange == [kind |-> "None"]

Overflow == [kind |-> "OverflowError"]

DateRange(start_date, end_date, days_in_month) ==
    [kind |-> "DateRange", start_date |-> start_date, end_date |-> end_date,
     days_in_month |-> days_in_month]

\* DateRange.total_days
total_days(r) == Ordinal(r.end_date) - Ordinal(r.start_date) + 1

\* The last item of maximal value in place of the first.
FirstMax_Last(d) ==
    d[CHOOSE i \in 1..Len(d) :
        /\ \A j \in 1..Len(d) : d[j].v <= d[i].v
        /\ \A j \in (i + 1)..Len(d) : d[j].v < d[i].v]

\* max(items, key=value): the first item, in dict order, of maximal value.
FirstMax(d) ==
    d[Min({i \in 1..Len(d) : \A j \in 1..Len(d) : d[j].v <= d[i].v})]

\* DateRange.main_month
main_month(r) ==
    IF r.days_in_month = <<>> THEN None ELSE FirstMax(r.days_in_month).k

\* The iterations of the while loop of _calculate_days_by_month that stay in
\* the month of current (current <= end_date): each counts its day under the
\* key of its month and steps on by current += timedelta(days=1), which
\* raises OverflowError at date.max.
RECURSIVE DaysOfMonth(_, _, _)
DaysOfMonth(current, end_date, days_by_month) ==
    LET month_key == Strftime(current)
        counted == DictSet(days_by_month, month_key,
                           DictGet(days_by_month, month_key, 0) + 1)
        next == NextDay(current)
    IN IF IsMaxDate(current)
       THEN [raised |-> TRUE, current |-> current, days |-> counted]
       ELSE IF DictHas(counted, month_key)  \* always true: evaluates the dict now
               /\ DateLE(next, end_date) /\ next.m = current.m
       THEN DaysOfMonth(next, end_date, counted)
       ELSE [raised |-> FALSE, current |-> next, days |-> counted]

\* while current <= end_date, taken a month of iterations at a time.
RECURSIVE DaysLoop(_, _, _)
DaysLoop(current, end_date, days_by_month) ==
    IF ~DateLE(current, end_date)
    THEN [raised |-> FALSE, days |-> days_by_month]
    ELSE LET r == DaysOfMonth(current, end_date, days_by_month)
         IN IF r.raised THEN [raised |-> TRUE, days |-> r.days]
            ELSE DaysLoop(r.current, end_date, r.days)

calculate_days_by_month(start_date, end_date) ==
    LET r == DaysLoop(start_date, end_date, <<>>)
    IN IF r.raised THEN Overflow ELSE DateRange(start_date, end_date, r.days)

\* re.search(r'(\d{4})-(\d{2})-(\d{2})', text): start of the leftmost match, 0 if none.
SearchDashed(s) ==
    LET hits == {i \in 1..Len(s) :
                    /\ i + 9 <= Len(s)
                    /\ \A k \in {0, 1, 2, 3, 5, 6, 8, 9} : IsDigit(s[i + k])
                    /\ s[i + 4] = "-" /\ s[i + 7] = "-"}
    IN IF hits = {} THEN 0 ELSE Min(hits)

\* extract_date_from_string(text), year_hint omitted.
extract_date_from_string(text) ==
    LET i == SearchDigits(text, 8)
        y1 == ToInt(SubSeq(text, i, i + 3))
        m1 == ToInt(SubSeq(text, i + 4, i + 5))
        d1 == ToInt(SubSeq(text, i + 6, i + 7))
        j == SearchDashed(text)
        y2 == ToInt(SubSeq(text, j, j + 3))
        m2 == ToInt(SubSeq(text, j + 5, j + 6))
        d2 == ToInt(SubSeq(text, j + 8, j + 9))
    IN IF i # 0 /\ ValidDate(y1, m1, d1) THEN Date(y1, m1, d1)
       ELSE IF j # 0 /\ ValidDate(y2, m2, d2) THEN Date(y2, m2, d2)
       ELSE NoDate

Fallthrough == [kind |-> "fallthrough"]

\* First tier: YYYYMMDD-YYYYMMDD.
ParseDayRange(name) ==
    LET i == SearchPair(name, 8)
        start_date == extract_date_from_string(SubSeq(name, i, i + 7))
        end_date == extract_date_from_string(SubSeq(name, i + 9, i + 16))
    IN IF i # 0 /\ start_date # NoDate /\ end_date # NoDate
       THEN calculate_days_by_month(start_date, end_date)
       ELSE Fallthrough

\* The last day of a month as the code computes it: date(year, 12, 31) for
\* December, else date(year, month + 1, 1) - timedelta(days=1).
MonthEnd(year, month) ==
    IF month = 12
    THEN (IF ValidDate(year, 12, 31)
          THEN [error |-> "", date |-> Date(year, 12, 31)]
          ELSE [error |-> "ValueError", date |-> NoDate])
    ELSE IF ~ValidDate(year, month + 1, 1)
    THEN [error |-> "ValueError", date |-> NoDate]
    ELSE IF IsMinDate(Date(year, month + 1, 1))
    THEN [error |-> "OverflowError", date |-> NoDate]
    ELSE [error |-> "", date |-> PrevDay(Date(year, month + 1, 1))]

\* The try block of a month tier: ValueError is caught (the tier gives
\* nothing), OverflowError is not.
MonthSpan(year1, month1, year2, month2) ==
    IF ~ValidDate(year1, month1, 1) THEN Fallthrough
    ELSE LET end_date == MonthEnd(year2, month2)
         IN IF end_date.error = "ValueError" THEN Fallthrough
            ELSE IF end_date.error = "OverflowError" THEN Overflow
            ELSE calculate_days_by_month(Date(year1, month1, 1), end_date.date)

\* Second tier: YYYYMM-YYYYMM.
ParseMonthRange(name) ==
    LET i == SearchPair(name, 6)
        start_str == SubSeq(name, i, i + 5)
        end_str == SubSeq(name, i + 7, i + 12)
    IN IF i = 0 THEN Fallthrough
       ELSE MonthSpan(ToInt(SubSeq(start_str, 1, 4)), ToInt(SubSeq(start_str, 5, 6)),
                      ToInt(SubSeq(end_str, 1, 4)), ToInt(SubSeq(end_str, 5, 6)))

\* Third tier: a single YYYYMM.
ParseSingleMonth(name) ==
    LET i == SearchDigits(name, 6)
        date_str == SubSeq(name, i, i + 5)
        year == ToInt(SubSeq(date_str, 1, 4))
        month == ToInt(SubSeq(date_str, 5, 6))
    IN IF i = 0 THEN Fallthrough ELSE MonthSpan(year, month, year, month)

parse_date_range_from_filename(name) ==
    LET t1 == ParseDayRange(name)
        t2 == ParseMonthRange(name)
        t3 == ParseSingleMonth(name)
    IN IF t1 # Fallthrough THEN t1
       ELSE IF t2 # Fallthrough THEN t2
       ELSE IF t3 # Fallthrough THEN t3
       ELSE NoRange

(***************************************************************************)
(* find_matching_roster_file (date_matcher.py)                             *)
(***************************************************************************)
\* travel_month.split('-') for a key holding one '-'.
SplitDash(s) ==
    LET i == CHOOSE k \in 1..Len(s) : s[k] = "-"
    IN <<SubSeq(s, 1, i - 1), SubSeq(s, i + 1, Len(s))>>

\* sorted(keys): ascending in string order.
RECURSIVE Sorted(_)
Sorted(S) ==
    IF S = {} THEN <<>>
    ELSE LET least == CHOOSE x \in S : \A y \in S : StrLE(x, y)
         IN <<least>> \o Sorted(S \ {least})

\* The key the "previous month" step looks up, None when the step is skipped.
PrevMonthKey(travel_year, travel_month_int) ==
    IF travel_month_int > 1
    THEN Str(travel_year) \o <<"-">> \o Fmt02(travel_month_int - 1)
    ELSE None

\* The "next month" step left out.
NextMonthKey_Skipped(travel_year, travel_month_int) == None

\* The key the "next month" step looks up, None when the step is skipped.
NextMonthKey(travel_year, travel_month_int) ==
    IF travel_month_int < 12
    THEN Str(travel_year) \o <<"-">> \o Fmt02(travel_month_int + 1)
    ELSE None

\* The nearest past month in place of the first one.
FirstPastMonth_Nearest(sorted_months, month) ==
    LET past == {i \in 1..Len(sorted_months) : StrLE(sorted_months[i], month)}
    IN IF past = {} THEN None ELSE sorted_months[CHOOSE i \in past : \A j \in past : j <= i]

\* for m in sorted_months: if m <= travel_month: return m -- the first such
\* m, None when the loop ends without one.
FirstPastMonth(sorted_months, month) ==
    LET past == {i \in 1..Len(sorted_months) : StrLE(sorted_months[i], month)}
    IN IF past = {} THEN None ELSE sorted_months[Min(past)]

find_matching_roster_file(month, rosters) ==
    LET parts == SplitDash(month)
        travel_year == ToInt(parts[1])
        travel_month_int == ToInt(parts[2])
        prev_month == PrevMonthKey(travel_year, travel_month_int)
        next_month == NextMonthKey(travel_year, travel_month_int)
        sorted_months == Sorted(DOMAIN rosters)
        past == FirstPastMonth(sorted_months, month)
    IN IF month \in DOMAIN rosters THEN rosters[month]
       ELSE IF prev_month \in DOMAIN rosters THEN rosters[prev_month]
       ELSE IF next_month \in DOMAIN rosters THEN rosters[next_month]
       ELSE IF DOMAIN rosters # {}
            THEN (IF past # None THEN rosters[past]
                  ELSE rosters[sorted_months[Len(sorted_months)]])
       ELSE None

(***************************************************************************)
(* Values of the variables a specification leaves alone                    *)
(***************************************************************************)
EmptyMap == [x \in {} |-> x]

AbsentIndex == [state |-> "absent", months |-> EmptyMap, allEmployees |-> EmptyMap]

NoCall == [month |-> None, employee_index |-> EmptyMap, updated |-> FALSE]

RosterIdle ==
    /\ roster_index = AbsentIndex
    /\ by_month = EmptyMap
    /\ call = NoCall
    /\ ingested = EmptyMap
    /\ ingests = 0

rosterVars == <<roster_index, by_month, call, ingested, ingests>>

MergeIdle ==
    /\ travel_records = <<>>
    /\ records = <<>>
    /\ summary = EmptyMap
    /\ indexes = EmptyMap

mergeVars == <<travel_records, records, summary, indexes>>

PipelineIdle ==
    /\ raw_dir = EmptyMap
    /\ shards = <<>>
    /\ travel_data = EmptyMap
    /\ run = EmptyMap
    /\ writers = EmptyMap

pipelineVars == <<raw_dir, shards, travel_data, run, writers>>

(***************************************************************************)
(* Scanning one travel file: scan_and_classify_files (file_scanner.py)     *)
(***************************************************************************)
\* The filename fields the travel files are drawn from.
YearFields == {Fmt04(y) : y \in {2024, 2025, 9999}}

MonthFields == {Fmt02(m) : m \in {0, 1, 2, 11, 12, 13}}

DayFields == {Fmt02(d) : d \in {24, 25, 31}}

\* Ranges run forward over at most this many year numbers.
MaxYearSpan == 1

SpanOk(y1, y2) == ToInt(y2) - ToInt(y1) <= MaxYearSpan

DayTokens ==
    {y1 \o m1 \o d1 \o <<"-">> \o y2 \o m2 \o d2 :
        <<y1, m1, d1, y2, m2, d2>> \in
            {t \in YearFields \X MonthFields \X DayFields
                     \X YearFields \X MonthFields \X DayFields : SpanOk(t[1], t[4])}}

MonthTokens ==
    {y1 \o m1 \o <<"-">> \o y2 \o m2 :
        <<y1, m1, y2, m2>> \in
            {t \in YearFields \X MonthFields \X YearFields \X MonthFields :
                SpanOk(t[1], t[3])}}

SingleTokens == {y \o m : <<y, m>> \in YearFields \X MonthFields}

OtherTokens == {<<>>, <<"2", "0", "2", "5">>, <<"2", "0", "2", "5", "1", "1", "2", "5">>}

\* A vendor marker, a date token and an extension.
TravelFilename(token) == <<"a", "l", "i">> \o token \o <<".", "x", "l", "s", "x">>

TravelFilenames ==
    {TravelFilename(t) : t \in DayTokens \cup MonthTokens \cup SingleTokens \cup OtherTokens}

InitScan ==
    /\ pc = "scan"
    /\ filename \in TravelFilenames
    /\ date_range = NoRange
    /\ target_month = None
    /\ travel_month = None
    /\ available_rosters = EmptyMap
    /\ matching_roster = None
    /\ RosterIdle
    /\ MergeIdle
    /\ PipelineIdle

\* target_month = date_range.main_month if date_range else None
TargetMonth(r) == IF r.kind = "DateRange" THEN main_month(r) ELSE None

\* if travel_info.target_month: matching_roster = find_matching_roster_file(...)
MatchingRoster(month, rosters) ==
    IF month # None /\ month # <<>> THEN find_matching_roster_file(month, rosters)
    ELSE None

\* One travel file of the directory goes through scan_and_classify_files; an
\* OverflowError of the parser leaves the call.
ScanTravelFile ==
    /\ pc = "scan"
    /\ LET r == parse_date_range_from_filename(filename)
       IN /\ date_range' = r
          /\ pc' = IF r.kind = "OverflowError" THEN "raised" ELSE "scanned"
          /\ target_month' = TargetMonth(r)
          /\ matching_roster' = MatchingRoster(TargetMonth(r), available_rosters)
    /\ UNCHANGED <<filename, travel_month, available_rosters>>
    /\ UNCHANGED rosterVars
    /\ UNCHANGED mergeVars
    /\ UNCHANGED pipelineVars

NextScan == ScanTravelFile

SpecScan == InitScan /\ [][NextScan]_vars

(***************************************************************************)
(* Matching a roster to a target month                                     *)
(***************************************************************************)
\* Number of consecutive months, from 2025-08 on, that targets and rosters
\* are drawn from.
NumMonths == 7

\* The i-th month (i >= 0) counted from August 2025, as a key.
WindowKey(i) == MonthKey(2025 + ((7 + i) \div 12), ((7 + i) % 12) + 1)

WindowKeys == {WindowKey(i) : i \in 0..(NumMonths - 1)}

\* The name of the roster file of a month, as in '2025年12月花名册.xlsx'.
RosterFilename(key) ==
    SubSeq(key, 1, 4) \o <<"Y">> \o SubSeq(key, 6, 7) \o <<"M", "r", ".", "x", "l", "s", "x">>

\* ScanResult.get_roster_map
get_roster_map(months) == [m \in months |-> RosterFilename(m)]

InitMatch ==
    /\ pc = "match"
    /\ travel_month \in WindowKeys
    /\ available_rosters \in {get_roster_map(S) : S \in SUBSET WindowKeys}
    /\ matching_roster = None
    /\ filename = None
    /\ date_range = NoRange
    /\ target_month = None
    /\ RosterIdle
    /\ MergeIdle
    /\ PipelineIdle

MatchRoster ==
    /\ pc = "match"
    /\ matching_roster' = find_matching_roster_file(travel_month, available_rosters)
    /\ pc' = "matched"
    /\ UNCHANGED <<filename, date_range, target_month, travel_month, available_rosters>>
    /\ UNCHANGED rosterVars
    /\ UNCHANGED mergeVars
    /\ UNCHANGED pipelineVars

NextMatch == MatchRoster

SpecMatch == InitMatch /\ [][NextMatch]_vars

(***************************************************************************)
(* Properties of find_matching_roster_file                                 *)
(***************************************************************************)
\* A month key as a number of months, for chronological comparison.
KeyYear(key) == ToInt(SubSeq(key, 1, 4))

KeyMonth(key) == ToInt(SubSeq(key, 6, 7))

MonthNumber(key) == KeyYear(key) * 12 + KeyMonth(key)

\* The calendar month before and after a month.
CalendarPrev(key) ==
    IF KeyMonth(key) = 1 THEN MonthKey(KeyYear(key) - 1, 12)
    ELSE MonthKey(KeyYear(key), KeyMonth(key) - 1)

CalendarNext(key) ==
    IF KeyMonth(key) = 12 THEN MonthKey(KeyYear(key) + 1, 1)
    ELSE MonthKey(KeyYear(key), KeyMonth(key) + 1)

Available == DOMAIN available_rosters

EarliestOf(S) == CHOOSE m \in S : \A n \in S : MonthNumber(m) <= MonthNumber(n)

LatestOf(S) == CHOOSE m \in S : \A n \in S : MonthNumber(n) <= MonthNumber(m)

PastAvailable == {m \in Available : MonthNumber(m) <= MonthNumber(travel_month)}

Aug2025 == MonthKey(2025, 8)
Sep2025 == MonthKey(2025, 9)
Oct2025 == MonthKey(2025, 10)
Nov2025 == MonthKey(2025, 11)

\* C1: the target month's roster is returned if available; otherwise the
\* roster of the calendar month before it, if available; otherwise the roster
\* of the calendar month after it, if available -- also across a year
\* boundary (before YYYY-01 comes (YYYY-1)-12, after YYYY-12 comes (YYYY+1)-01).
C1_AdjacentTiers ==
    pc = "matched" =>
        IF travel_month \in Available
        THEN matching_roster = available_rosters[travel_month]
        ELSE IF CalendarPrev(travel_month) \in Available
        THEN matching_roster = available_rosters[CalendarPrev(travel_month)]
        ELSE IF CalendarNext(travel_month) \in Available
        THEN matching_roster = available_rosters[CalendarNext(travel_month)]
        ELSE TRUE

\* C2 as stated: for target 2025-10, rosters {2025-08, 2025-09, 2025-11}
\* give 2025-09, and rosters {2025-08, 2025-11} give 2025-08.
C2_ExampleAsStated ==
    (pc = "matched" /\ travel_month = Oct2025) =>
        /\ Available = {Aug2025, Sep2025, Nov2025}
             => matching_roster = RosterFilename(Sep2025)
        /\ Available = {Aug2025, Nov2025}
             => matching_roster = RosterFilename(Aug2025)

\* C2 amended: for target 2025-10, rosters {2025-08, 2025-09, 2025-11} give
\* 2025-09 (previous month), and rosters {2025-08, 2025-11} give 2025-11 (the
\* next month comes before the fallback to past months).
C2_ExampleAmended ==
    (pc = "matched" /\ travel_month = Oct2025) =>
        /\ Available = {Aug2025, Sep2025, Nov2025}
             => matching_roster = RosterFilename(Sep2025)
        /\ Available = {Aug2025, Nov2025}
             => matching_roster = RosterFilename(Nov2025)

C2_Witness ==
    /\ pc = "matched"
    /\ travel_month = Oct2025
    /\ Available = {Aug2025, Nov2025}
    /\ matching_roster = RosterFilename(Nov2025)

Days == date_range.days_in_month

Returned == pc = "scanned" /\ date_range.kind = "DateRange"

\* '阿里20251125-20251224.xlsx'
ExampleFilename ==
    TravelFilename(Fmt04(2025) \o Fmt02(11) \o Fmt02(25) \o <<"-">>
                   \o Fmt04(2025) \o Fmt02(12) \o Fmt02(24))

\* The months tying for the greatest day count.
TopMonths == {Days[i].k : i \in {i \in 1..Len(Days) : \A j \in 1..Len(Days) : Days[j].v <= Days[i].v}}

\* C4: the target month stored for a travel file is a month of days_in_month
\* with the greatest day count, and among the months tying for the greatest
\* count it is the lexicographically smallest; '阿里20251125-20251224.xlsx'
\* gives Nov = 6, Dec = 24 and target month 2025-12.
C4_DominantMonth ==
    /\ (Returned /\ Days # <<>>) =>
          /\ target_month \in TopMonths
          /\ \A k \in TopMonths : StrLE(target_month, k)
    /\ (pc = "scanned" /\ filename = ExampleFilename) =>
          /\ date_range.kind = "DateRange"
          /\ Days = <<[k |-> MonthKey(2025, 11), v |-> 6],
                      [k |-> MonthKey(2025, 12), v |-> 24]>>
          /\ target_month = MonthKey(2025, 12)

\* Two months tie for the greatest day count and the earlier one is the target.
C4_Witness ==
    /\ Returned
    /\ Cardinality(TopMonths) >= 2
    /\ target_month \in TopMonths
    /\ \A k \in TopMonths : StrLE(target_month, k)

\* The fields of the tokens the three patterns find in a file name.
DayTokenAt == SearchPair(filename, 8)

DayTokenStart ==
    [y |-> ToInt(SubSeq(filename, DayTokenAt, DayTokenAt + 3)),
     m |-> ToInt(SubSeq(filename, DayTokenAt + 4, DayTokenAt + 5)),
     d |-> ToInt(SubSeq(filename, DayTokenAt + 6, DayTokenAt + 7))]

DayTokenEnd ==
    [y |-> ToInt(SubSeq(filename, DayTokenAt + 9, DayTokenAt + 12)),
     m |-> ToInt(SubSeq(filename, DayTokenAt + 13, DayTokenAt + 14)),
     d |-> ToInt(SubSeq(filename, DayTokenAt + 15, DayTokenAt + 16))]

IsDate(a) == ValidDate(a.y, a.m, a.d)

DayTokenValid == DayTokenAt # 0 /\ IsDate(DayTokenStart) /\ IsDate(DayTokenEnd)

MonthTokenAt == SearchPair(filename, 6)

MonthTokenStart ==
    [y |-> ToInt(SubSeq(filename, MonthTokenAt, MonthTokenAt + 3)),
     m |-> ToInt(SubSeq(filename, MonthTokenAt + 4, MonthTokenAt + 5)),
     d |-> 1]

MonthTokenEnd ==
    [y |-> ToInt(SubSeq(filename, MonthTokenAt + 7, MonthTokenAt + 10)),
     m |-> ToInt(SubSeq(filename, MonthTokenAt + 11, MonthTokenAt + 12)),
     d |-> 1]

MonthTokenValid == MonthTokenAt # 0 /\ IsDate(MonthTokenStart) /\ IsDate(MonthTokenEnd)

SingleTokenAt == SearchDigits(filename, 6)

SingleToken ==
    [y |-> ToInt(SubSeq(filename, SingleTokenAt, SingleTokenAt + 3)),
     m |-> ToInt(SubSeq(filename, SingleTokenAt + 4, SingleTokenAt + 5)),
     d |-> 1]

SingleTokenValid == SingleTokenAt # 0 /\ IsDate(SingleToken)

LastOfMonth(a) == Date(a.y, a.m, DaysInMonth(a.y, a.m))

\* The days of [first, last] that lie in month m of year y.
DaysWithin(first, last, y, m) ==
    Cardinality({d \in 1..DaysInMonth(y, m) :
                    DateLE(first, Date(y, m, d)) /\ DateLE(Date(y, m, d), last)})

\* C5: for a file name with a YYYYMMDD-YYYYMMDD token of two valid dates, in
\* either order, the returned range has sum(days_in_month.values()) ==
\* total_days == (end_date - start_date).days + 1, and each bucket counts
\* exactly the days of [start_date, end_date] that lie in its month.
C5_DaysAddUp ==
    (Returned /\ DayTokenValid) =>
        /\ date_range.start_date = DayTokenStart
        /\ date_range.end_date = DayTokenEnd
        /\ SumValues(Days) = total_days(date_range)
        /\ total_days(date_range) = Ordinal(DayTokenEnd) - Ordinal(DayTokenStart) + 1
        /\ \A y \in DayTokenStart.y..DayTokenEnd.y : \A m \in 1..12 :
              DictGet(Days, MonthKey(y, m), 0) = DaysWithin(DayTokenStart, DayTokenEnd, y, m)
        /\ \A i \in 1..Len(Days) : Days[i].v >= 1

\* C6: the result is that of the first pattern, in the order YYYYMMDD-YYYYMMDD,
\* YYYYMM-YYYYMM, YYYYMM, whose match denotes valid calendar dates; a match
\* that does not is passed over; None is returned exactly when no pattern
\* gives valid dates; nothing is raised.
C6_TierOrder ==
    pc # "scan" =>
        /\ pc # "raised"
        /\ IF DayTokenValid
           THEN /\ date_range.kind = "DateRange"
                /\ date_range.start_date = DayTokenStart
                /\ date_range.end_date = DayTokenEnd
           ELSE IF MonthTokenValid
           THEN /\ date_range.kind = "DateRange"
                /\ date_range.start_date = MonthTokenStart
                /\ date_range.end_date = LastOfMonth(MonthTokenEnd)
           ELSE IF SingleTokenValid
           THEN /\ date_range.kind = "DateRange"
                /\ date_range.start_date = SingleToken
                /\ date_range.end_date = LastOfMonth(SingleToken)
           ELSE date_range = NoRange

\* C7: for a file name with a YYYYMM-YYYYMM token and no YYYYMMDD-YYYYMMDD
\* token, a returned result is the range from day 1 of the first month to the
\* last day of the second month when both MM are months 01..12; when either
\* is not, the result is that of the single-YYYYMM pattern.
C7_MonthRange ==
    (pc = "scanned" /\ DayTokenAt = 0 /\ MonthTokenAt # 0) =>
        IF MonthTokenStart.m \in 1..12 /\ MonthTokenEnd.m \in 1..12
        THEN /\ date_range.kind = "DateRange"
             /\ date_range.start_date = MonthTokenStart
             /\ date_range.end_date = LastOfMonth(MonthTokenEnd)
        ELSE IF SingleTokenValid
        THEN /\ date_range.kind = "DateRange"
             /\ date_range.start_date = SingleToken
             /\ date_range.end_date = LastOfMonth(SingleToken)
        ELSE date_range = NoRange

(***************************************************************************)
(* The roster index: process_roster and update_roster_index                *)
(* (process_roster.py)                                                     *)
(***************************************************************************)
\* Number of process_roster calls followed.
MaxIngests == 3

RosterMonths == {MonthKey(2025, 9), MonthKey(2025, 10), MonthKey(2025, 11)}

Names == {"Li", "Wang"}

\* The department chains an employee is found in.
DeptChains ==
    {[deptLevel1 |-> "Sales", deptLevel2 |-> "East", deptLevel3 |-> ""],
     [deptLevel1 |-> "Tech", deptLevel2 |-> "Data", deptLevel3 |-> "BI"]}

\* build_employee_index: name -> department chain, position and status, one
\* entry per name (the last record of a name wins).
EmployeeIndexes ==
    UNION {[S -> {[deptLevel1 |-> c.deptLevel1, deptLevel2 |-> c.deptLevel2,
                   deptLevel3 |-> c.deptLevel3, position |-> "", status |-> "active"] :
                      c \in DeptChains}] : S \in (SUBSET Names) \ {{}}}

\* roster_index.json exists but json.load fails on it.
CorruptIndex == [state |-> "corrupt", months |-> EmptyMap, allEmployees |-> EmptyMap]

\* A start from an empty index in place of the persisted one.
LoadIndex_Fresh(file) == [state |-> "json", months |-> EmptyMap, allEmployees |-> EmptyMap]

\* The index update_roster_index starts from: the content of the file, or {}
\* when the file is absent or unreadable, with 'months' and 'allEmployees'
\* defaulting to {}.
LoadIndex(file) ==
    IF file.state = "json" THEN file
    ELSE [state |-> "json", months |-> EmptyMap, allEmployees |-> EmptyMap]

\* An older snapshot overwrites too.
ShouldOverwrite_Always(month, latestRecord) == TRUE

\* Only a strictly later month overwrites.
ShouldOverwrite_Strict(month, latestRecord) == StrLess(latestRecord, month)

\* month >= index['allEmployees'][name].get('latestRecord', '')
ShouldOverwrite(month, latestRecord) == StrLE(latestRecord, month)

\* The entry of a name of the snapshot after the loop body.
MergedEntry(allEmployees, name, info, month) ==
    LET incoming == [deptLevel1 |-> info.deptLevel1, deptLevel2 |-> info.deptLevel2,
                     deptLevel3 |-> info.deptLevel3, latestRecord |-> month]
    IN IF name \notin DOMAIN allEmployees THEN incoming
       ELSE IF ShouldOverwrite(month, allEmployees[name].latestRecord) THEN incoming
       ELSE allEmployees[name]

\* d[k] = v on a dict whose order does not matter.
MapSet(d, k, v) == [x \in DOMAIN d \cup {k} |-> IF x = k THEN v ELSE d[x]]

\* The content update_roster_index writes to roster_index.json.
update_roster_index(file, month, name, employee_index, now) ==
    LET index == LoadIndex(file)
        months == MapSet(index.months, month,
                         [file |-> name, processedAt |-> now,
                          count |-> Cardinality(DOMAIN employee_index)])
        allEmployees ==
            [n \in DOMAIN index.allEmployees \cup DOMAIN employee_index |->
                IF n \in DOMAIN employee_index
                THEN MergedEntry(index.allEmployees, n, employee_index[n], month)
                ELSE index.allEmployees[n]]
    IN [state |-> "json", months |-> months, allEmployees |-> allEmployees]

DeptsOf(info) ==
    [deptLevel1 |-> info.deptLevel1, deptLevel2 |-> info.deptLevel2,
     deptLevel3 |-> info.deptLevel3]

InitRoster ==
    /\ pc = "roster"
    /\ roster_index \in {AbsentIndex, CorruptIndex}
    /\ by_month = EmptyMap
    /\ call = NoCall
    /\ ingested = EmptyMap
    /\ ingests = 0
    /\ filename = None
    /\ date_range = NoRange
    /\ target_month = None
    /\ travel_month = None
    /\ available_rosters = EmptyMap
    /\ matching_roster = None
    /\ MergeIdle
    /\ PipelineIdle

scanVars == <<pc, filename, date_range, target_month, travel_month,
              available_rosters, matching_roster>>

\* process_roster on a roster file of a month with at least one active
\* employee: the month's snapshot is written, then the index is updated.
ProcessRoster ==
    /\ ingests < MaxIngests
    /\ \E month \in RosterMonths, employee_index \in EmployeeIndexes :
          /\ by_month' = MapSet(by_month, month,
                                [month |-> month, rosterFile |-> RosterFilename(month),
                                 processedAt |-> ingests + 1,
                                 employees |-> employee_index,
                                 count |-> Cardinality(DOMAIN employee_index)])
          /\ roster_index' = update_roster_index(roster_index, month, RosterFilename(month),
                                                 employee_index, ingests + 1)
          /\ call' = [month |-> month, employee_index |-> employee_index, updated |-> TRUE]
          /\ ingested' = [p \in DOMAIN ingested \cup {<<n, month>> : n \in DOMAIN employee_index} |->
                            IF p[2] = month /\ p[1] \in DOMAIN employee_index
                            THEN DeptsOf(employee_index[p[1]])
                            ELSE ingested[p]]
    /\ ingests' = ingests + 1
    /\ UNCHANGED scanVars
    /\ UNCHANGED mergeVars
    /\ UNCHANGED pipelineVars

\* process_roster on a roster file that yields no record: it returns before
\* anything is written.
ProcessEmptyRoster ==
    /\ ingests < MaxIngests
    /\ \E month \in RosterMonths :
          call' = [month |-> month, employee_index |-> EmptyMap, updated |-> FALSE]
    /\ ingests' = ingests + 1
    /\ UNCHANGED <<roster_index, by_month, ingested>>
    /\ UNCHANGED scanVars
    /\ UNCHANGED mergeVars
    /\ UNCHANGED pipelineVars

NextRoster == ProcessRoster \/ ProcessEmptyRoster

SpecRoster == InitRoster /\ [][NextRoster]_vars

(***************************************************************************)
(* Properties of the roster index                                          *)
(***************************************************************************)
\* What roster_index.json holds, nothing when it is absent or unreadable.
PersistedMonths(file) == IF file.state = "json" THEN file.months ELSE EmptyMap

PersistedEmployees(file) == IF file.state = "json" THEN file.allEmployees ELSE EmptyMap

AllEmployees == PersistedEmployees(roster_index)

\* The months whose ingested snapshots held a name.
MonthsOf(name) == {p[2] : p \in {q \in DOMAIN ingested : q[1] = name}}

GreatestKey(S) == CHOOSE m \in S : \A n \in S : n = m \/ StrLess(n, m)

\* C8: after any sequence of ingests, in any order of months, every name of
\* allEmployees has as latestRecord the lexicographically greatest month
\* among the ingested snapshots that hold the name, and the departments of
\* that month's snapshot.
C8_LatestSnapshotWins ==
    /\ DOMAIN AllEmployees = {p[1] : p \in DOMAIN ingested}
    /\ \A name \in DOMAIN AllEmployees :
          LET latest == GreatestKey(MonthsOf(name))
          IN /\ AllEmployees[name].latestRecord = latest
             /\ DeptsOf(AllEmployees[name]) = ingested[<<name, latest>>]

\* The last ingest was of a month older than a month already recorded for one
\* of its names, with other departments, and the entry kept the later month.
C8_Witness ==
    /\ call.updated
    /\ \E name \in DOMAIN call.employee_index :
          /\ Cardinality(MonthsOf(name)) >= 2
          /\ call.month # GreatestKey(MonthsOf(name))
          /\ DeptsOf(call.employee_index[name]) # DeptsOf(AllEmployees[name])
          /\ AllEmployees[name].latestRecord = GreatestKey(MonthsOf(name))

IncomingEntry(info, month) ==
    [deptLevel1 |-> info.deptLevel1, deptLevel2 |-> info.deptLevel2,
     deptLevel3 |-> info.deptLevel3, latestRecord |-> month]

\* C9: an ingest inserts a name absent from allEmployees with the incoming
\* departments and latestRecord = month, and overwrites the departments and
\* latestRecord of a name already present if and only if the incoming month
\* is lexicographically >= the stored latestRecord (so 2025-09 ingested after
\* 2025-11 leaves the 2025-11 entry in place).
C9_IngestStep ==
    [][ (ingests' = ingests + 1 /\ call'.updated) =>
          \A name \in DOMAIN call'.employee_index :
             LET before == PersistedEmployees(roster_index)
                 after == PersistedEmployees(roster_index')
                 incoming == IncomingEntry(call'.employee_index[name], call'.month)
             IN /\ name \in DOMAIN after
                /\ name \notin DOMAIN before => after[name] = incoming
                /\ name \in DOMAIN before =>
                     IF before[name].latestRecord = call'.month
                        \/ StrLess(before[name].latestRecord, call'.month)
                     THEN after[name] = incoming
                     ELSE after[name] = before[name]
      ]_vars

\* 2025-09 was ingested after 2025-11 for a name, with other departments,
\* and the name's entry is still that of 2025-11.
C9_Witness ==
    /\ call.updated
    /\ call.month = MonthKey(2025, 9)
    /\ \E name \in DOMAIN call.employee_index :
          /\ AllEmployees[name].latestRecord = MonthKey(2025, 11)
          /\ DeptsOf(AllEmployees[name]) = ingested[<<name, MonthKey(2025, 11)>>]
          /\ DeptsOf(AllEmployees[name]) # DeptsOf(call.employee_index[name])

\* C10: every month key and every name of the persisted index before a
\* process_roster call is still there after it, and only the entry of the
\* ingested month and the entries of the names of the ingested snapshot may
\* have changed.
C10_HistoryKept ==
    [][ ingests' = ingests + 1 =>
          LET monthsBefore == PersistedMonths(roster_index)
              monthsAfter == PersistedMonths(roster_index')
              before == PersistedEmployees(roster_index)
              after == PersistedEmployees(roster_index')
          IN /\ \A m \in DOMAIN monthsBefore :
                   /\ m \in DOMAIN monthsAfter
                   /\ m # call'.month => monthsAfter[m] = monthsBefore[m]
             /\ \A name \in DOMAIN before :
                   /\ name \in DOMAIN after
                   /\ name \notin DOMAIN call'.employee_index => after[name] = before[name]
      ]_vars

\* An ingest of one month has left another month's entry and the entry of a
\* name outside its snapshot in the index.
C10_Witness ==
    /\ call.updated
    /\ \E m \in DOMAIN PersistedMonths(roster_index) :
          m # call.month /\ PersistedMonths(roster_index)[m].processedAt < ingests
    /\ \E name \in DOMAIN AllEmployees : name \notin DOMAIN call.employee_index

(***************************************************************************)
(* One run of process_all_files for a travel file: scan, roster phase,     *)
(* vendor adapter (process_all.py, process_alibaba.py, process_roster.py)  *)
(***************************************************************************)
\* Rows of the travel file an adapter extracts a record from.
MaxRows == 2

\* The travellers of a travel file: the people of the rosters and a stranger.
Travellers == Names \cup {"Zhao"}

TravelRows == UNION {[1..n -> Travellers] : n \in 1..MaxRows}

\* A whole month, a day range over two months, and a name without a date.
VendorFilenames ==
    {TravelFilename(Fmt04(2025) \o Fmt02(10)),
     TravelFilename(Fmt04(2025) \o Fmt02(11) \o Fmt02(25) \o <<"-">>
                    \o Fmt04(2025) \o Fmt02(12) \o Fmt02(24)),
     TravelFilename(Fmt04(2025))}

\* for month, roster_info in sorted(scan_result.rosters.items())
RosterOrder == Sorted(DOMAIN available_rosters)

\* load_employee_index(roster_index_path, month): {} without an index file,
\* the employees of by-month/<month>.json when a month is given and that
\* file exists, else allEmployees of the index; json.load on an unreadable
\* index file or month file raises.
load_employee_index(file, snapshots, month) ==
    IF file.state = "absent" THEN [raised |-> FALSE, employees |-> EmptyMap]
    ELSE IF file.state = "corrupt" THEN [raised |-> TRUE, employees |-> EmptyMap]
    ELSE IF month # None /\ month # <<>> /\ month \in DOMAIN snapshots
    THEN IF "employees" \in DOMAIN snapshots[month]
         THEN [raised |-> FALSE, employees |-> snapshots[month].employees]
         ELSE [raised |-> TRUE, employees |-> EmptyMap]
    ELSE [raised |-> FALSE, employees |-> file.allEmployees]

\* roster_index.get(passenger, {})
DeptInfo(employees, passenger) ==
    IF passenger \in DOMAIN employees THEN employees[passenger] ELSE EmptyMap

\* dept_info.get(field, '')
DeptField(dept_info, field) ==
    IF field \in DOMAIN dept_info THEN dept_info[field] ELSE ""

\* extract_flight_record, as far as the traveller and the departments go.
extract_flight_record(passenger, employees) ==
    LET dept_info == DeptInfo(employees, passenger)
    IN [source |-> "alibaba", type |-> "flight", passenger |-> passenger,
        deptLevel1 |-> DeptField(dept_info, "deptLevel1"),
        deptLevel2 |-> DeptField(dept_info, "deptLevel2")]

\* process_alibaba_file: one record per row, in row order.
process_alibaba_file(rows, employees) ==
    [i \in 1..Len(rows) |-> extract_flight_record(rows[i], employees)]

InitVendor ==
    /\ pc = "scan"
    /\ filename \in VendorFilenames
    /\ available_rosters \in {get_roster_map(S) : S \in SUBSET RosterMonths}
    /\ roster_index \in {AbsentIndex, CorruptIndex}
    /\ date_range = NoRange
    /\ target_month = None
    /\ travel_month = None
    /\ matching_roster = None
    /\ by_month = EmptyMap
    /\ call = NoCall
    /\ ingested = EmptyMap
    /\ ingests = 0
    /\ MergeIdle
    /\ PipelineIdle

\* Phase 1 of process_all_files: process_roster on the roster files in
\* ascending order of month.
RosterPhase ==
    /\ pc = "scanned"
    /\ ingests < Len(RosterOrder)
    /\ (ProcessRoster \/ ProcessEmptyRoster)
    /\ call'.month = RosterOrder[ingests + 1]

\* Phase 2 of process_all_files: process_alibaba on the travel file. Without
\* a target month the file is skipped; a failure of load_employee_index
\* leaves the call.
ProcessTravelFile ==
    /\ pc = "scanned"
    /\ ingests = Len(RosterOrder)
    /\ \E rows \in TravelRows :
          LET loaded == load_employee_index(roster_index, by_month, target_month)
          IN IF target_month = None \/ target_month = <<>>
             THEN pc' = "skipped" /\ travel_records' = <<>>
             ELSE IF loaded.raised
             THEN pc' = "failed" /\ travel_records' = <<>>
             ELSE /\ pc' = "processed"
                  /\ travel_records' = process_alibaba_file(rows, loaded.employees)
    /\ UNCHANGED <<filename, date_range, target_month, travel_month,
                   available_rosters, matching_roster>>
    /\ UNCHANGED rosterVars
    /\ UNCHANGED <<records, summary, indexes>>
    /\ UNCHANGED pipelineVars

NextVendor == ScanTravelFile \/ RosterPhase \/ ProcessTravelFile

SpecVendor == InitVendor /\ [][NextVendor]_vars

(***************************************************************************)
(* Properties of the department lookup                                     *)
(***************************************************************************)
\* The month whose roster file the scan matched to the travel file.
MatchedMonth ==
    CHOOSE m \in DOMAIN available_rosters : available_rosters[m] = matching_roster

Snapshot(month) == by_month[month].employees

\* The departments a snapshot gives a traveller, empty strings if it has none.
DeptsIn(employees, passenger) ==
    IF passenger \in DOMAIN employees
    THEN <<employees[passenger].deptLevel1, employees[passenger].deptLevel2>>
    ELSE <<"", "">>

DeptsOfRecord(record) == <<record.deptLevel1, record.deptLevel2>>

\* C11: the departments of every record of a travel file are those of the
\* snapshot of the roster month that the matching policy selected for the
\* file (TravelFileInfo.matching_roster), empty strings for a traveller the
\* snapshot does not hold.
C11_MatchedRosterConsulted ==
    (pc = "processed" /\ matching_roster # None /\ MatchedMonth \in DOMAIN by_month) =>
        \A i \in 1..Len(travel_records) :
            DeptsOfRecord(travel_records[i]) =
                DeptsIn(Snapshot(MatchedMonth), travel_records[i].passenger)

\* C12: when a travel file has been processed and there is no snapshot of
\* its target month, every record has empty deptLevel1 and deptLevel2; when
\* there is one, a traveller the snapshot does not hold has empty deptLevel1
\* and deptLevel2.
C12_MissingRosterEmptyDepts ==
    pc = "processed" =>
        \A i \in 1..Len(travel_records) :
            IF target_month \in DOMAIN by_month
            THEN travel_records[i].passenger \notin DOMAIN Snapshot(target_month) =>
                    DeptsOfRecord(travel_records[i]) = <<"", "">>
            ELSE DeptsOfRecord(travel_records[i]) = <<"", "">>

(***************************************************************************)
(* The merge: parse_amount, parse_date_from_record, get_employee_name,     *)
(* build_summary and build_indexes (merge_data.py)                         *)
(***************************************************************************)
\* The record types with an amount and a date.
Flight == <<"f", "l", "i", "g", "h", "t">>

Hotel == <<"h", "o", "t", "e", "l">>

Train == <<"t", "r", "a", "i", "n">>

Car == <<"c", "a", "r">>

\* 'unknown'
UnknownType == <<"u", "n", "k", "n", "o", "w", "n">>

\* The sentinels of build_summary and build_indexes, written in Chinese in
\* the source: unknown department, month, employee and source.
UnknownDept == <<"U+672A", "U+77E5", "U+90E8", "U+95E8">>

UnknownMonth == <<"U+672A", "U+77E5", "U+6708", "U+4EFD">>

UnknownEmployee == <<"U+672A", "U+77E5", "U+5458", "U+5DE5">>

UnknownSource == <<"U+672A", "U+77E5", "U+6765", "U+6E90">>

\* record.get(field, default)
Get(record, field, default) ==
    IF field \in DOMAIN record THEN record[field] ELSE default

\* An amount is a whole number of thousandths of the currency unit, so that
\* round(x, 2) has something to round.

\* The price also for a car.
parse_amount_PriceOnly(record) ==
    LET record_type == Get(record, "type", <<>>)
    IN IF record_type \in {Flight, Hotel, Train, Car} THEN Get(record, "price", 0)
       ELSE 0

\* parse_amount
parse_amount(record) ==
    LET record_type == Get(record, "type", <<>>)
    IN IF record_type = Flight THEN Get(record, "price", 0)
       ELSE IF record_type = Hotel THEN Get(record, "price", 0)
       ELSE IF record_type = Train THEN Get(record, "price", 0)
       ELSE IF record_type = Car THEN Get(record, "totalAmount", 0)
       ELSE 0

\* ' ' in s
HasSpace(s) == \E i \in 1..Len(s) : s[i] = " "

\* s.split(' ')[0]
BeforeSpace(s) == SubSeq(s, 1, Min({i \in 1..Len(s) : s[i] = " "}) - 1)

\* s[:n]
Prefix(s, n) == SubSeq(s, 1, IF Len(s) < n THEN Len(s) ELSE n)

\* parse_date_from_record
parse_date_from_record(record) ==
    LET record_type == Get(record, "type", <<>>)
        time_str == IF record_type = Flight THEN Get(record, "departTime", <<>>)
                    ELSE IF record_type = Hotel THEN Get(record, "checkInTime", <<>>)
                    ELSE IF record_type = Train THEN Get(record, "departTime", <<>>)
                    ELSE Get(record, "pickupTime", <<>>)
    IN IF record_type \notin {Flight, Hotel, Train, Car} THEN <<>>
       ELSE IF HasSpace(time_str) THEN BeforeSpace(time_str)
       ELSE IF Len(time_str) >= 10 THEN Prefix(time_str, 10)
       ELSE <<>>

\* get_employee_name
get_employee_name(record) ==
    LET record_type == Get(record, "type", <<>>)
    IN IF record_type = Flight THEN Get(record, "passenger", <<>>)
       ELSE IF record_type = Car THEN Get(record, "passenger", <<>>)
       ELSE Get(record, "employee", <<>>)

\* The five dimensions of the summary and of the indexes.
Dimensions == {"byDept", "byType", "byMonth", "byEmployee", "bySource"}

\* The group of a record in a dimension: the loop variables dept,
\* record_type, month, employee and source of build_summary and
\* build_indexes.
GroupKey(dim, record) ==
    IF dim = "byDept" THEN Get(record, "deptLevel1", UnknownDept)
    ELSE IF dim = "byType" THEN Get(record, "type", UnknownType)
    ELSE IF dim = "byMonth"
    THEN LET date_str == parse_date_from_record(record)
         IN IF Len(date_str) >= 7 THEN Prefix(date_str, 7) ELSE UnknownMonth
    ELSE IF dim = "byEmployee"
    THEN LET name == get_employee_name(record)
         IN IF name # <<>> THEN name ELSE UnknownEmployee
    ELSE Get(record, "source", UnknownSource)

\* The amount is set, not added.
Accumulate_Overwrite(by, key, amount) ==
    LET old == DictGet(by, key, [amount |-> 0, count |-> 0])
    IN DictSet(by, key, [amount |-> amount, count |-> old.count + 1])

\* Only the first record of a group is counted.
Accumulate_CountOnce(by, key, amount) ==
    LET old == DictGet(by, key, [amount |-> 0, count |-> 0])
    IN DictSet(by, key, [amount |-> old.amount + amount, count |-> 1])

\* by[key]['amount'] += amount; by[key]['count'] += 1 on a defaultdict.
Accumulate(by, key, amount) ==
    LET old == DictGet(by, key, [amount |-> 0, count |-> 0])
    IN DictSet(by, key, [amount |-> old.amount + amount, count |-> old.count + 1])

\* The body of the loop of build_summary.
SummaryStep(record, acc) ==
    LET amount == parse_amount(record)
    IN [total_amount |-> acc.total_amount + amount,
        byDept |-> Accumulate(acc.byDept, GroupKey("byDept", record), amount),
        byType |-> Accumulate(acc.byType, GroupKey("byType", record), amount),
        byMonth |-> Accumulate(acc.byMonth, GroupKey("byMonth", record), amount),
        byEmployee |-> Accumulate(acc.byEmployee, GroupKey("byEmployee", record), amount),
        bySource |-> Accumulate(acc.bySource, GroupKey("bySource", record), amount)]

\* The loop of build_summary over the records first..last, in order (the
\* range is halved to keep the evaluation shallow).
RECURSIVE SummaryLoop(_, _, _, _)
SummaryLoop(recs, first, last, acc) ==
    IF first > last THEN acc
    ELSE IF first = last THEN SummaryStep(recs[first], acc)
    ELSE LET mid == (first + last) \div 2
             firstHalf == SummaryLoop(recs, first, mid, acc)
         IN IF Len(firstHalf.byDept) > 0  \* always true: evaluates firstHalf now
            THEN SummaryLoop(recs, mid + 1, last, firstHalf)
            ELSE firstHalf

\* round(x, 2) on thousandths: the nearest hundredth, a tie to the even one.
Round2(x) ==
    LET r == x % 10
    IN IF r < 5 THEN x - r
       ELSE IF r > 5 THEN x + (10 - r)
       ELSE IF ((x - r) \div 10) % 2 = 0 THEN x - r ELSE x + (10 - r)

\* Ascending amounts.
SortedByAmount_Ascending(by) ==
    LET n == Len(by)
        Rank(i) == Cardinality({j \in 1..n : by[j].v.amount < by[i].v.amount})
                   + Cardinality({j \in 1..i : by[j].v.amount = by[i].v.amount})
    IN [p \in 1..n |-> by[CHOOSE i \in 1..n : Rank(i) = p]]

\* sorted(by.items(), key=lambda x: x[1]['amount'], reverse=True): a stable
\* sort, so an item comes after the items of greater amount and after the
\* earlier items of the same amount.
SortedByAmount(by) ==
    LET n == Len(by)
        Rank(i) == Cardinality({j \in 1..n : by[j].v.amount > by[i].v.amount})
                   + Cardinality({j \in 1..i : by[j].v.amount = by[i].v.amount})
    IN [p \in 1..n |-> by[CHOOSE i \in 1..n : Rank(i) = p]]

\* sorted(by.items()): ascending by key, the keys being distinct.
SortedByKey(by) ==
    LET n == Len(by)
        Rank(i) == Cardinality({j \in 1..n : StrLE(by[j].k, by[i].k)})
    IN [p \in 1..n |-> by[CHOOSE i \in 1..n : Rank(i) = p]]

\* The slice [:100] of the employees.
TopEmployees == 100

\* items[:n]
Take(items, n) == SubSeq(items, 1, IF Len(items) < n THEN Len(items) ELSE n)

\* {k: {'amount': round(v['amount'], 2), 'count': v['count']} for k, v in items}
RoundedGroups(items) ==
    [i \in 1..Len(items) |->
        [k |-> items[i].k,
         v |-> [amount |-> Round2(items[i].v.amount), count |-> items[i].v.count]]]

\* The accumulators of build_summary after the loop.
Accumulated(recs) ==
    SummaryLoop(recs, 1, Len(recs),
                [total_amount |-> 0, byDept |-> <<>>, byType |-> <<>>,
                 byMonth |-> <<>>, byEmployee |-> <<>>, bySource |-> <<>>])

\* build_summary
build_summary(recs) ==
    LET acc == Accumulated(recs)
    IN [totalAmount |-> Round2(acc.total_amount),
        totalRecords |-> Len(recs),
        byDept |-> RoundedGroups(SortedByAmount(acc.byDept)),
        byType |-> RoundedGroups(SortedByAmount(acc.byType)),
        byMonth |-> RoundedGroups(SortedByKey(acc.byMonth)),
        byEmployee |-> RoundedGroups(Take(SortedByAmount(acc.byEmployee), TopEmployees)),
        bySource |-> RoundedGroups(SortedByAmount(acc.bySource))]

\* Positions counted from 1.
Position_FromOne(i) == i

\* enumerate(records): the position of the i-th record.
Position(i) == i - 1

\* index[key].append(i) on a defaultdict(list)
AppendTo(index, key, position) ==
    DictSet(index, key, Append(DictGet(index, key, <<>>), position))

\* The body of the loop of build_indexes for the i-th record.
IndexStep(record, i, acc) ==
    [byDept |-> AppendTo(acc.byDept, GroupKey("byDept", record), Position(i)),
     byType |-> AppendTo(acc.byType, GroupKey("byType", record), Position(i)),
     byMonth |-> AppendTo(acc.byMonth, GroupKey("byMonth", record), Position(i)),
     byEmployee |-> AppendTo(acc.byEmployee, GroupKey("byEmployee", record), Position(i)),
     bySource |-> AppendTo(acc.bySource, GroupKey("bySource", record), Position(i))]

\* The loop of build_indexes over the records first..last, in order.
RECURSIVE IndexLoop(_, _, _, _)
IndexLoop(recs, first, last, acc) ==
    IF first > last THEN acc
    ELSE IF first = last THEN IndexStep(recs[first], first, acc)
    ELSE LET mid == (first + last) \div 2
             firstHalf == IndexLoop(recs, first, mid, acc)
         IN IF Len(firstHalf.byDept) > 0  \* always true: evaluates firstHalf now
            THEN IndexLoop(recs, mid + 1, last, firstHalf)
            ELSE firstHalf

\* build_indexes
build_indexes(recs) ==
    LET acc == IndexLoop(recs, 1, Len(recs),
                         [byDept |-> <<>>, byType |-> <<>>, byMonth |-> <<>>,
                          byEmployee |-> <<>>, bySource |-> <<>>])
    IN [byDept |-> SortedByKey(acc.byDept),
        byType |-> SortedByKey(acc.byType),
        byMonth |-> SortedByKey(acc.byMonth),
        byEmployee |-> SortedByKey(acc.byEmployee),
        bySource |-> SortedByKey(acc.bySource)]

(***************************************************************************)
(* One call of merge_data on the records of the by-month files             *)
(***************************************************************************)
\* Length of the merged record lists followed in full.
MaxRecords == 3

\* The sources the adapters write, in Chinese in the source: Alibaba, Ctrip
\* and Zaitu business travel.
Alibaba == <<"U+963F", "U+91CC", "U+5546", "U+65C5">>

Ctrip == <<"U+643A", "U+7A0B", "U+5546", "U+65C5">>

Zaitu == <<"U+5728", "U+9014", "U+5546", "U+65C5">>

Li == <<"L", "i">>

Wang == <<"W", "a", "n", "g">>

Zhao == <<"Z", "h", "a", "o">>

Sales == <<"S", "a", "l", "e", "s">>

Tech == <<"T", "e", "c", "h">>

Bus == <<"b", "u", "s">>

\* 'YYYY-MM-DD'
DateText(y, m, d) == Fmt04(y) \o <<"-">> \o Fmt02(m) \o <<"-">> \o Fmt02(d)

\* 'YYYY-MM-DD HH:MM'
TimeText(y, m, d, hh, mm) ==
    DateText(y, m, d) \o <<" ">> \o Fmt02(hh) \o <<":">> \o Fmt02(mm)

\* Records as the adapters write them (a refund, an unmatched traveller, a
\* date without a time, a month alone, an empty time, an unpadded date) and
\* records of other shapes a by-month file may hold (a type unknown to the
\* merge, no type, no department and source, no passenger).
RecordPool ==
    {[source |-> Alibaba, type |-> Flight, passenger |-> Li, deptLevel1 |-> Sales,
      departTime |-> TimeText(2025, 11, 25, 8, 30), price |-> 1000],
     [source |-> Ctrip, type |-> Flight, passenger |-> Wang, deptLevel1 |-> <<>>,
      departTime |-> TimeText(2025, 12, 1, 9, 0), price |-> -500],
     [source |-> Ctrip, type |-> Hotel, employee |-> Li, deptLevel1 |-> Sales,
      checkInTime |-> DateText(2025, 12, 5), price |-> 2500],
     [source |-> Zaitu, type |-> Hotel, employee |-> Wang, deptLevel1 |-> Tech,
      checkInTime |-> MonthKey(2025, 12), price |-> 4],
     [source |-> Alibaba, type |-> Train, employee |-> Wang, deptLevel1 |-> Tech,
      departTime |-> <<>>, price |-> 1000],
     [source |-> Alibaba, type |-> Car, passenger |-> Li, deptLevel1 |-> Sales,
      pickupTime |-> TimeText(2025, 11, 30, 23, 10), totalAmount |-> 1500],
     [source |-> Zaitu, type |-> Car, passenger |-> <<>>, deptLevel1 |-> <<>>,
      pickupTime |-> TimeText(2025, 12, 2, 10, 0), totalAmount |-> 4],
     [source |-> Zaitu, type |-> Bus, employee |-> Zhao, deptLevel1 |-> Tech,
      departTime |-> TimeText(2025, 12, 3, 10, 0), price |-> 9000],
     [source |-> Alibaba, employee |-> Li, deptLevel1 |-> Sales, price |-> 1000],
     [type |-> Hotel, employee |-> Zhao,
      checkInTime |-> TimeText(2025, 11, 28, 14, 0), price |-> 1000],
     [source |-> Ctrip, type |-> Flight, employee |-> Li, deptLevel1 |-> Sales,
      price |-> 0],
     [source |-> Zaitu, type |-> Train, employee |-> Zhao, deptLevel1 |-> Tech,
      departTime |-> Fmt04(2025) \o <<"-", "1", "-", "5", " ">> \o Fmt02(8)
                     \o <<":">> \o Fmt02(0),
      price |-> 2500]}

RecordLists == UNION {[1..n -> RecordPool] : n \in 0..MaxRecords}

\* One flight each of more employees than the summary lists, and a record of
\* a type unknown to the merge for one employee more.
ManyEmployees ==
    [i \in 1..(TopEmployees + 2) |->
        IF i <= TopEmployees + 1
        THEN [source |-> Alibaba, type |-> Flight, passenger |-> <<"E">> \o Fmt04(i),
              deptLevel1 |-> Sales, departTime |-> TimeText(2025, 12, 1, 9, 0),
              price |-> 1000 * (1 + (i % 7))]
        ELSE [source |-> Zaitu, type |-> Bus, employee |-> <<"E">> \o Fmt04(i),
              deptLevel1 |-> Tech, departTime |-> TimeText(2025, 12, 3, 10, 0),
              price |-> 9000]]

\* merge_monthly_data: the records of all by-month files in one list.
InitMerge ==
    /\ pc = "merge"
    /\ records \in RecordLists \cup {ManyEmployees}
    /\ summary = EmptyMap
    /\ indexes = EmptyMap
    /\ travel_records = <<>>
    /\ filename = None
    /\ date_range = NoRange
    /\ target_month = None
    /\ travel_month = None
    /\ available_rosters = EmptyMap
    /\ matching_roster = None
    /\ RosterIdle
    /\ PipelineIdle

\* merge_data with records: the summary and the indexes are built.
MergeData ==
    /\ pc = "merge"
    /\ records # <<>>
    /\ summary' = build_summary(records)
    /\ indexes' = build_indexes(records)
    /\ pc' = "merged"
    /\ UNCHANGED <<records, travel_records>>
    /\ UNCHANGED pipelineVars
    /\ UNCHANGED <<filename, date_range, target_month, travel_month,
                   available_rosters, matching_roster>>
    /\ UNCHANGED rosterVars

\* merge_data without records returns False before anything is built.
MergeNothing ==
    /\ pc = "merge"
    /\ records = <<>>
    /\ pc' = "norecords"
    /\ UNCHANGED mergeVars
    /\ UNCHANGED pipelineVars
    /\ UNCHANGED <<filename, date_range, target_month, travel_month,
                   available_rosters, matching_roster>>
    /\ UNCHANGED rosterVars

NextMerge == MergeData \/ MergeNothing

SpecMerge == InitMerge /\ [][NextMerge]_vars

(***************************************************************************)
(* Properties of the summary and the indexes                               *)
(***************************************************************************)
Merged == pc = "merged"

\* The 0-based positions of the record list.
Positions == 0..(Len(records) - 1)

\* How often a position occurs in a position list.
Occurrences(list, p) == Cardinality({j \in 1..Len(list) : list[j] = p})

\* The position lists of a dimension partition the positions: every listed
\* position is one of the record list, and every position of the record
\* list occurs once in one list and in no other.
Partitioned(dim) ==
    /\ \A i \in 1..Len(indexes[dim]) :
          \A j \in 1..Len(indexes[dim][i].v) : indexes[dim][i].v[j] \in Positions
    /\ \A p \in Positions :
          \E i \in 1..Len(indexes[dim]) :
             /\ Occurrences(indexes[dim][i].v, p) = 1
             /\ \A h \in 1..Len(indexes[dim]) :
                   h # i => Occurrences(indexes[dim][h].v, p) = 0

\* The position list of a key is as long as the count of the key's group.
CountMatches(dim, key) ==
    Len(DictGet(indexes[dim], key, <<>>)) = DictGet(summary[dim], key, [count |-> -1]).count

\* C13 as stated: in each of the five dimensions the position lists
\* partition {0..len(records)-1}, and every key of the index is a key of the
\* summary whose count is the length of the key's position list.
C13_AsStated ==
    Merged =>
        \A dim \in Dimensions :
            /\ Partitioned(dim)
            /\ \A key \in DictKeys(indexes[dim]) :
                  DictHas(summary[dim], key) /\ CountMatches(dim, key)

\* C13: in each of the five dimensions the position lists partition
\* {0..len(records)-1}; every key of the summary is a key of the index and
\* its count is the length of the key's position list; byDept, byType,
\* byMonth and bySource list every key of the index, byEmployee lists every
\* key when there are at most 100 employees and 100 of them otherwise.
C13_IndexCompleteness ==
    Merged =>
        \A dim \in Dimensions :
            /\ Partitioned(dim)
            /\ \A key \in DictKeys(summary[dim]) :
                  DictHas(indexes[dim], key) /\ CountMatches(dim, key)
            /\ IF dim = "byEmployee" /\ Len(indexes[dim]) > TopEmployees
               THEN Len(summary[dim]) = TopEmployees
               ELSE DictKeys(summary[dim]) = DictKeys(indexes[dim])

\* A merge of more employees than the summary lists, with a department of
\* several records next to a department of one.
C13_Witness ==
    /\ Merged
    /\ Len(indexes["byEmployee"]) > Len(summary["byEmployee"])
    /\ \E i, j \in 1..Len(indexes["byDept"]) :
          Len(indexes["byDept"][i].v) > 1 /\ Len(indexes["byDept"][j].v) = 1

\* The sum of parse_amount over the records first..last.
RECURSIVE SumOfAmounts(_, _)
SumOfAmounts(first, last) ==
    IF first > last THEN 0
    ELSE IF first = last THEN parse_amount(records[first])
    ELSE LET mid == (first + last) \div 2
         IN SumOfAmounts(first, mid) + SumOfAmounts(mid + 1, last)

\* The sum of the amounts of the groups of a dimension of the summary.
RECURSIVE SumOfGroups(_)
SumOfGroups(groups) ==
    IF groups = <<>> THEN 0 ELSE Head(groups).v.amount + SumOfGroups(Tail(groups))

\* Every amount is a whole number of hundredths.
WholeCents == \A i \in 1..Len(records) : parse_amount(records[i]) % 10 = 0

\* C14: totalAmount is the sum of parse_amount over all records, rounded to
\* two decimals, and when the amounts are whole hundredths (so that
\* rounding is exact) the amounts of the byType groups add up to
\* totalAmount.
C14_SummaryTotals ==
    Merged =>
        /\ summary.totalAmount = Round2(SumOfAmounts(1, Len(records)))
        /\ summary.totalRecords = Len(records)
        /\ WholeCents => SumOfGroups(summary["byType"]) = summary.totalAmount

\* A fare and a refund of one type and a record of another type, in whole
\* hundredths.
C14_Witness ==
    /\ Merged
    /\ WholeCents
    /\ Len(summary["byType"]) >= 2
    /\ \E i \in 1..Len(summary["byType"]) :
          summary["byType"][i].v.count = 2 /\ summary["byType"][i].v.amount = 500
    /\ summary.totalAmount = 2000

\* The field that carries the time of a record of one of the four types.
TimeField(record) ==
    IF record.type = Hotel THEN "checkInTime"
    ELSE IF record.type = Car THEN "pickupTime"
    ELSE "departTime"

HasDate(record) ==
    "type" \in DOMAIN record /\ record.type \in {Flight, Hotel, Train, Car}

\* The first seven characters of the time field, the sentinel when the
\* field is absent or shorter.
FirstSeven(record) ==
    LET text == Get(record, TimeField(record), <<>>)
    IN IF Len(text) >= 7 THEN SubSeq(text, 1, 7) ELSE UnknownMonth

\* The key of a dimension under which a position is listed.
IndexedUnder(dim, p) ==
    indexes[dim][CHOOSE i \in 1..Len(indexes[dim]) :
                    Occurrences(indexes[dim][i].v, p) > 0].k

\* C16: a flight, hotel, train or car record is listed in byMonth under the
\* first seven characters of its departTime, checkInTime or pickupTime when
\* the field has at least seven characters and under the unknown-month
\* sentinel otherwise, and the summary counts every month as the index lists
\* it.
C16_MonthBucket ==
    Merged =>
        /\ \A i \in 1..Len(records) :
              HasDate(records[i]) => IndexedUnder("byMonth", i - 1) = FirstSeven(records[i])
        /\ DictKeys(summary["byMonth"]) = DictKeys(indexes["byMonth"])
        /\ \A key \in DictKeys(indexes["byMonth"]) : CountMatches("byMonth", key)

\* The field that carries the name of the traveller of a record.
NameField(record) ==
    IF "type" \in DOMAIN record /\ record.type \in {Flight, Car} THEN "passenger"
    ELSE "employee"

\* C17: no key of byDept or byEmployee, in the summary or in the indexes, is
\* the empty string; a record without a name in its name field (passenger
\* for flight and car, employee otherwise) is listed under the
\* unknown-employee sentinel and a record without deptLevel1, or with an
\* empty one, under the unknown-department sentinel; any other record is
\* listed under its own name and its own deptLevel1.
C17_NoEmptyKey ==
    Merged =>
        /\ \A dim \in {"byDept", "byEmployee"} :
              <<>> \notin DictKeys(summary[dim]) \cup DictKeys(indexes[dim])
        /\ \A i \in 1..Len(records) :
              LET name == Get(records[i], NameField(records[i]), <<>>)
                  dept == Get(records[i], "deptLevel1", <<>>)
              IN /\ IndexedUnder("byEmployee", i - 1) =
                        IF name = <<>> THEN UnknownEmployee ELSE name
                 /\ IndexedUnder("byDept", i - 1) =
                        IF dept = <<>> THEN UnknownDept ELSE dept

\* The amount of a record as the record types define it: the price of a
\* flight, hotel or train, the totalAmount of a car, nothing otherwise.
AmountOfType(record) ==
    IF ~HasDate(record) THEN 0
    ELSE IF record.type = Car THEN Get(record, "totalAmount", 0)
    ELSE Get(record, "price", 0)

\* The sum of the amounts of the records at the positions first..last of a
\* position list.
RECURSIVE AmountAt(_, _, _)
AmountAt(list, first, last) ==
    IF first > last THEN 0
    ELSE IF first = last THEN AmountOfType(records[list[first] + 1])
    ELSE LET mid == (first + last) \div 2
         IN AmountAt(list, first, mid) + AmountAt(list, mid + 1, last)

\* The amount of the records of a group, before rounding.
GroupAmount(dim, key) ==
    LET list == DictGet(indexes[dim], key, <<>>) IN AmountAt(list, 1, Len(list))

Unrecognized(record) == ~HasDate(record)

\* totalAmount, totalRecords and the amount and count of every listed group
\* follow the amounts by type.
AmountsByType ==
    /\ summary.totalAmount =
          Round2(AmountAt([i \in 1..Len(records) |-> i - 1], 1, Len(records)))
    /\ summary.totalRecords = Len(records)
    /\ \A dim \in Dimensions :
          \A i \in 1..Len(summary[dim]) :
             /\ summary[dim][i].v.amount = Round2(GroupAmount(dim, summary[dim][i].k))
             /\ CountMatches(dim, summary[dim][i].k)

\* C18 as stated: the amount of a record is its price for flight, hotel and
\* train, its totalAmount for car and 0 for any other or missing type, and
\* a record of another or no type is counted in totalRecords and in the
\* count of a group of the summary in each of the five dimensions.
C18_AsStated ==
    Merged =>
        /\ AmountsByType
        /\ \A i \in 1..Len(records) :
              Unrecognized(records[i]) =>
                 \A dim \in Dimensions :
                    DictHas(summary[dim], IndexedUnder(dim, i - 1))

\* C18: the amount of a record is its price for flight, hotel and train,
\* its totalAmount for car and 0 for any other or missing type; a record of
\* another or no type is counted in totalRecords and in the count of its
\* group in byDept, byType, byMonth and bySource, and in the count of its
\* employee when byEmployee lists the employee (it lists all of at most 100
\* employees).
C18_AmountByType ==
    Merged =>
        /\ AmountsByType
        /\ \A i \in 1..Len(records) :
              Unrecognized(records[i]) =>
                 \A dim \in Dimensions :
                    (dim # "byEmployee" \/ Len(indexes[dim]) <= TopEmployees) =>
                       DictHas(summary[dim], IndexedUnder(dim, i - 1))

\* A record of a type unknown to the merge, with a price, is counted under
\* its type with amount 0, and its employee is one too many for byEmployee.
C18_Witness ==
    /\ Merged
    /\ \E i \in 1..Len(records) :
          /\ Unrecognized(records[i])
          /\ Get(records[i], "price", 0) > 0
          /\ DictGet(summary["byType"], IndexedUnder("byType", i - 1),
                     [amount |-> -1, count |-> 0]) = [amount |-> 0, count |-> 1]
          /\ ~DictHas(summary["byEmployee"], IndexedUnder("byEmployee", i - 1))

\* The position of the first record of a group.
FirstOccurrence(dim, key) == DictGet(indexes[dim], key, <<>>)[1]

\* The place of a group before another in the descending-amount stable
\* order: a greater accumulated amount, or the same amount and an earlier
\* first record.
ListedBefore(dim, a, b) ==
    \/ GroupAmount(dim, a) > GroupAmount(dim, b)
    \/ /\ GroupAmount(dim, a) = GroupAmount(dim, b)
       /\ FirstOccurrence(dim, a) < FirstOccurrence(dim, b)

\* The groups of a dimension of the summary are in the descending-amount
\* stable order.
InAmountOrder(dim) ==
    \A i, j \in 1..Len(summary[dim]) :
       i < j => ListedBefore(dim, summary[dim][i].k, summary[dim][j].k)

\* C19: byDept, byType and bySource list all their groups by descending
\* accumulated amount, groups of equal amount in the order of their first
\* record; byMonth lists its groups in strictly ascending order of the month
\* key; byEmployee is the first 100 employees (all when fewer) of the
\* descending-amount stable order, so that every omitted employee comes
\* after every retained one in that order.
C19_SummaryOrder ==
    Merged =>
        /\ \A dim \in {"byDept", "byType", "bySource"} :
              /\ Len(summary[dim]) = Len(indexes[dim])
              /\ InAmountOrder(dim)
        /\ Len(summary["byMonth"]) = Len(indexes["byMonth"])
        /\ \A i, j \in 1..Len(summary["byMonth"]) :
              i < j => /\ StrLE(summary["byMonth"][i].k, summary["byMonth"][j].k)
                       /\ summary["byMonth"][i].k # summary["byMonth"][j].k
        /\ Len(summary["byEmployee"]) =
              (IF Len(indexes["byEmployee"]) < TopEmployees
               THEN Len(indexes["byEmployee"]) ELSE TopEmployees)
        /\ InAmountOrder("byEmployee")
        /\ \A e \in 1..Len(indexes["byEmployee"]) :
              ~DictHas(summary["byEmployee"], indexes["byEmployee"][e].k) =>
                 \A r \in 1..Len(summary["byEmployee"]) :
                    ListedBefore("byEmployee", summary["byEmployee"][r].k,
                                 indexes["byEmployee"][e].k)

\* More than 100 employees: the last retained employee and an omitted one
\* have the same amount, and two months are listed.
C19_Witness ==
    /\ Merged
    /\ Len(indexes["byEmployee"]) > TopEmployees
    /\ \E e \in 1..Len(indexes["byEmployee"]) :
          /\ ~DictHas(summary["byEmployee"], indexes["byEmployee"][e].k)
          /\ GroupAmount("byEmployee", indexes["byEmployee"][e].k) =
                GroupAmount("byEmployee", summary["byEmployee"][TopEmployees].k)
    /\ Len(summary["byMonth"]) >= 2
    /\ Len(summary["byType"]) >= 2

\* C20: every position listed under a key of a dimension of the indexes is
\* a 0-based position of the record list whose record has that key in that
\* dimension, and every position list is strictly increasing: the order of
\* the records, not of their amounts.
C20_IndexSoundness ==
    Merged =>
        \A dim \in Dimensions :
           \A i \in 1..Len(indexes[dim]) :
              LET list == indexes[dim][i].v
              IN /\ \A j \in 1..Len(list) :
                       /\ list[j] \in Positions
                       /\ GroupKey(dim, records[list[j] + 1]) = indexes[dim][i].k
                 /\ \A j \in 1..(Len(list) - 1) : list[j] < list[j + 1]

\* A key lists the first and the last of three records and not the one
\* between them, and the last record has the greater amount.
C20_Witness ==
    /\ Merged
    /\ Len(records) = 3
    /\ \E i \in 1..Len(indexes["byEmployee"]) :
          indexes["byEmployee"][i].v = <<0, 2>>
    /\ parse_amount(records[1]) < parse_amount(records[3])

(***************************************************************************)
(* Well-formedness of the returned date range                              *)
(***************************************************************************)
\* C30: every DateRange returned by parse_date_range_from_filename has
\* start_date <= end_date and at least one bucket in days_in_month, so that
\* its main_month, stored as the target month of the file, is a month and
\* not None.
C30_WellFormedRange ==
    Returned =>
        /\ DateLE(date_range.start_date, date_range.end_date)
        /\ Days # <<>>
        /\ main_month(date_range) # None
        /\ target_month # None

(***************************************************************************)
(* Runs of process_all_files over a raw directory and an output directory  *)
(* (process_all.py, file_scanner.py, process_roster.py, process_*.py,      *)
(* merge_data.py)                                                          *)
(***************************************************************************)
\* Travel files in the raw directory, and runs followed.
MaxTravelFiles == 2

MaxRuns == 2

Nov2025Key == MonthKey(2025, 11)

Dec2025Key == MonthKey(2025, 12)

\* The months a roster file of the raw directory is of.
PipelineMonths == {Nov2025Key, Dec2025Key}

\* A file pandas cannot read, or a roster without an active employee.
Unreadable == [readable |-> FALSE]

Readable(content) == [readable |-> TRUE, content |-> content]

Chain(dept1, dept2) ==
    [deptLevel1 |-> dept1, deptLevel2 |-> dept2, deptLevel3 |-> <<>>,
     position |-> <<>>, status |-> <<"a">>]

\* What build_employee_index makes of a roster file.
RosterContents ==
    {Unreadable,
     Readable((Li :> Chain(Sales, <<"E">>))),
     Readable((Li :> Chain(Tech, <<"D">>)) @@ (Wang :> Chain(Sales, <<"E">>)))}

\* name.lower()
LowerCase(s) ==
    [i \in 1..Len(s) |->
        IF \E j \in 1..Len(Upper) : Upper[j] = s[i]
        THEN Lower[IndexIn(Upper, s[i])] ELSE s[i]]

\* 'xxx' in name
Contains(s, part) ==
    \E i \in 1..(Len(s) - Len(part) + 1) : SubSeq(s, i, i + Len(part) - 1) = part

\* name.startswith('xx')
StartsWith(s, part) == Len(s) >= Len(part) /\ SubSeq(s, 1, Len(part)) = part

RosterMarker == <<"U+82B1", "U+540D", "U+518C">>

\* classify_file
classify_file(name) ==
    LET lowered == LowerCase(name)
    IN IF Contains(lowered, RosterMarker) THEN "roster"
       ELSE IF StartsWith(lowered, SubSeq(Alibaba, 1, 2)) THEN "alibaba"
       ELSE IF StartsWith(lowered, SubSeq(Ctrip, 1, 2)) THEN "ctrip"
       ELSE IF StartsWith(lowered, SubSeq(Zaitu, 1, 2)) THEN "zaitu"
       ELSE "None"

Xlsx == <<".", "x", "l", "s", "x">>

\* A row of a travel file: the traveller, the departure and the amount.
Row(passenger, day, price) ==
    [passenger |-> passenger, departTime |-> TimeText(2025, 12, day, 9, 0),
     price |-> price]

\* The travel files a raw directory may hold: two files of one vendor for
\* the same month, files of another vendor, a file pandas cannot read, a
\* file without a date in its name and a file that is of no vendor.
TravelFilePool ==
    {[name |-> SubSeq(Alibaba, 1, 2) \o Fmt04(2025) \o Fmt02(12) \o Xlsx,
      rows |-> Readable(<<Row(Li, 1, 1234)>>)],
     [name |-> SubSeq(Alibaba, 1, 2) \o Fmt04(2025) \o Fmt02(11) \o Fmt02(25)
               \o <<"-">> \o Fmt04(2025) \o Fmt02(12) \o Fmt02(24) \o Xlsx,
      rows |-> Readable(<<Row(Wang, 2, 2500)>>)],
     [name |-> SubSeq(Ctrip, 1, 2) \o Fmt04(2025) \o Fmt02(12) \o Xlsx,
      rows |-> Readable(<<Row(Li, 3, 1000), Row(Zhao, 4, 500)>>)],
     [name |-> SubSeq(Ctrip, 1, 2) \o Fmt04(2025) \o Fmt02(11) \o Xlsx,
      rows |-> Unreadable],
     [name |-> SubSeq(Zaitu, 1, 2) \o Fmt04(2025) \o Xlsx,
      rows |-> Readable(<<Row(Li, 5, 1000)>>)],
     [name |-> <<"X">> \o Fmt04(2025) \o Fmt02(12) \o Xlsx,
      rows |-> Readable(<<Row(Wang, 6, 1000)>>)]}

\* The raw directories: absent, or with a roster file for some of the months
\* and some travel files.
RawDirs ==
    {[exists |-> FALSE, rosters |-> EmptyMap, travel |-> {}]}
    \cup {[exists |-> TRUE, rosters |-> r, travel |-> t] :
            r \in UNION {[S -> RosterContents] : S \in SUBSET PipelineMonths},
            t \in {T \in SUBSET TravelFilePool : Cardinality(T) <= MaxTravelFiles}}

\* sorted(files, key=lambda x: x.name), for the files of one source.
RECURSIVE SortedByName(_)
SortedByName(files) ==
    IF files = {} THEN <<>>
    ELSE LET least == CHOOSE f \in files : \A g \in files : StrLE(f.name, g.name)
         IN <<least>> \o SortedByName(files \ {least})

\* TravelFileInfo of a file of the raw directory.
TravelFileInfo(file, source) ==
    [filename |-> file.name, source |-> source, rows |-> file.rows,
     target_month |-> TargetMonth(parse_date_range_from_filename(file.name))]

\* scan_result.alibaba, .ctrip or .zaitu
TravelFilesOf(dir, source) ==
    LET sorted == SortedByName({f \in dir.travel : classify_file(f.name) = source})
    IN [i \in 1..Len(sorted) |-> TravelFileInfo(sorted[i], source)]

\* The travel files in the order phase 2 takes them.
all_travel_files(dir) ==
    TravelFilesOf(dir, "alibaba") \o TravelFilesOf(dir, "ctrip") \o TravelFilesOf(dir, "zaitu")

\* sorted(scan_result.rosters.items())
roster_months(dir) == Sorted(DOMAIN dir.rosters)

\* A file of the output directory that json.load fails on.
CorruptFile == [state |-> "corrupt"]

SourceTag(source) ==
    IF source = "alibaba" THEN <<"a", "l", "i", "b", "a", "b", "a">>
    ELSE IF source = "ctrip" THEN <<"c", "t", "r", "i", "p">>
    ELSE <<"z", "a", "i", "t", "u">>

SourceName(source) ==
    IF source = "alibaba" THEN Alibaba
    ELSE IF source = "ctrip" THEN Ctrip
    ELSE Zaitu

Json == <<".", "j", "s", "o", "n">>

\* f'{source}_{month}.json'
ShardName(source, month) == SourceTag(source) \o <<"_">> \o month \o Json

\* f'{month}.json', the file of a roster snapshot
SnapshotName(month) == month \o Json

\* An index and a month file an earlier run left, the month file cut short.
LeftIndex ==
    [state |-> "json",
     months |-> (Dec2025Key :> [file |-> RosterFilename(Dec2025Key), processedAt |-> 0,
                                count |-> 1]),
     allEmployees |-> (Li :> [deptLevel1 |-> Sales, deptLevel2 |-> <<"E">>,
                              deptLevel3 |-> <<>>, latestRecord |-> Dec2025Key])]

\* The output directory before the first run: roster_index.json, the month
\* files and the travel files of by-month.
OutputDirs ==
    {[roster_index |-> AbsentIndex, by_month |-> EmptyMap, shards |-> <<>>],
     [roster_index |-> CorruptIndex, by_month |-> EmptyMap, shards |-> <<>>],
     [roster_index |-> LeftIndex, by_month |-> (Dec2025Key :> CorruptFile), shards |-> <<>>],
     [roster_index |-> AbsentIndex, by_month |-> EmptyMap,
      shards |-> <<[name |-> ShardName("zaitu", MonthKey(2025, 10)), state |-> "corrupt"]>>]}

\* The vendor's extract_*_record for a row: the departments are looked up
\* under the traveller's name, '' when the name is not found.
extract_record(source, row, employees) ==
    [source |-> SourceName(source), type |-> Flight, passenger |-> row.passenger,
     deptLevel1 |-> IF row.passenger \in DOMAIN employees
                    THEN employees[row.passenger].deptLevel1 ELSE <<>>,
     deptLevel2 |-> IF row.passenger \in DOMAIN employees
                    THEN employees[row.passenger].deptLevel2 ELSE <<>>,
     departTime |-> row.departTime, price |-> row.price]

\* process_alibaba_file, process_ctrip_file, process_zaitu_file: the records
\* of the rows, [] for a file that cannot be read.
process_file(info, employees) ==
    IF ~info.rows.readable THEN <<>>
    ELSE [i \in 1..Len(info.rows.content) |->
             extract_record(info.source, info.rows.content[i], employees)]

\* The content an adapter writes to its by-month file.
ShardOf(info, recs, now) ==
    [name |-> ShardName(info.source, info.target_month), state |-> "json",
     source |-> SourceName(info.source), month |-> info.target_month,
     sourceFile |-> info.filename, processedAt |-> now, records |-> recs,
     count |-> Len(recs)]

ShardAt(dir, name) == CHOOSE i \in 1..Len(dir) : dir[i].name = name

HasShard(dir, name) == \E i \in 1..Len(dir) : dir[i].name = name

\* The records added to those the file already holds.
WriteShard_Append(dir, file, position) ==
    IF HasShard(dir, file.name) /\ dir[ShardAt(dir, file.name)].state = "json"
    THEN [dir EXCEPT ![ShardAt(dir, file.name)] =
             [file EXCEPT !.records = dir[ShardAt(dir, file.name)].records \o file.records]]
    ELSE IF HasShard(dir, file.name)
    THEN [dir EXCEPT ![ShardAt(dir, file.name)] = file]
    ELSE SubSeq(dir, 1, position - 1) \o <<file>> \o SubSeq(dir, position, Len(dir))

\* open(output_file, 'w') and json.dump: a file of that name is replaced
\* where it is listed, a new file takes a place of the listing.
WriteShard(dir, file, position) ==
    IF HasShard(dir, file.name)
    THEN [dir EXCEPT ![ShardAt(dir, file.name)] = file]
    ELSE SubSeq(dir, 1, position - 1) \o <<file>> \o SubSeq(dir, position, Len(dir))

\* The places of the listing a new file may take.
ShardPlaces(dir, name) ==
    IF HasShard(dir, name) THEN {ShardAt(dir, name)} ELSE 1..(Len(dir) + 1)

\* The month files of the roster snapshots, as files of by-month.
SnapshotFiles(snapshots) ==
    LET months == Sorted(DOMAIN snapshots)
    IN [i \in 1..Len(months) |->
           IF "employees" \in DOMAIN snapshots[months[i]]
           THEN [name |-> SnapshotName(months[i]), state |-> "json",
                 month |-> snapshots[months[i]].month]
           ELSE [name |-> SnapshotName(months[i]), state |-> "corrupt"]]

\* by_month_dir.glob('*.json'): the travel files in their listing order and
\* the month files (which hold no records, so that their places among the
\* travel files do not show).
Glob(dir, snapshots) == dir \o SnapshotFiles(snapshots)

RosterPrefix == <<"r", "o", "s", "t", "e", "r", "_">>

\* The files merge_monthly_data takes data from: not those it skips by name,
\* not those json.load fails on.
IsLoaded(f) == ~StartsWith(f.name, RosterPrefix) /\ f.state = "json"

Loaded(files) == SelectSeq(files, IsLoaded)

\* all_records.extend(data.get('records', [])) over the files.
RECURSIVE AllRecords(_)
AllRecords(files) ==
    IF files = <<>> THEN <<>>
    ELSE Get(Head(files), "records", <<>>) \o AllRecords(Tail(files))

\* Every price rounded to the hundredth on the way.
merge_monthly_data_Rounded(files) ==
    LET all == AllRecords(Loaded(files))
    IN [records |-> [i \in 1..Len(all) |-> [all[i] EXCEPT !.price = Round2(all[i].price)]],
        months |-> Sorted({Loaded(files)[i].month :
                              i \in {j \in 1..Len(Loaded(files)) :
                                        "month" \in DOMAIN Loaded(files)[j]}}),
        sources |-> Sorted({Loaded(files)[i].source :
                               i \in {j \in 1..Len(Loaded(files)) :
                                         "source" \in DOMAIN Loaded(files)[j]}})]

\* merge_monthly_data
merge_monthly_data(files) ==
    LET loaded == Loaded(files)
    IN [records |-> AllRecords(loaded),
        months |-> Sorted({loaded[i].month :
                              i \in {j \in 1..Len(loaded) : "month" \in DOMAIN loaded[j]}}),
        sources |-> Sorted({loaded[i].source :
                               i \in {j \in 1..Len(loaded) : "source" \in DOMAIN loaded[j]}})]

\* The phase of a run with that many roster and travel files done, the
\* travel files first.
Phase_VendorsFirst(rostersDone, travelDone, rosters, travel) ==
    IF travelDone < Len(travel) THEN "vendors"
    ELSE IF rostersDone < Len(rosters) THEN "rosters"
    ELSE "merge"

\* The phase of a run with that many roster and travel files done: the loop
\* over the rosters, the loops over the travel files, merge_data.
Phase(rostersDone, travelDone, rosters, travel) ==
    IF rostersDone < Len(rosters) THEN "rosters"
    ELSE IF travelDone < Len(travel) THEN "vendors"
    ELSE "merge"

\* The roster index without the times of processing.
Timeless(index) ==
    [state |-> index.state,
     months |-> [m \in DOMAIN index.months |->
                    [file |-> index.months[m].file, count |-> index.months[m].count]],
     allEmployees |-> index.allEmployees]

\* What a run leaves in roster_index.json and travel-data.json, the times
\* of processing apart.
Outputs ==
    [roster_index |-> Timeless(roster_index),
     months |-> Get(travel_data, "months", <<>>),
     sources |-> Get(travel_data, "sources", <<>>),
     records |-> records, summary |-> summary, indexes |-> indexes]

NoRun ==
    [number |-> 0, status |-> "none", rosters |-> <<>>, travel |-> <<>>,
     rostersDone |-> 0, travelDone |-> 0, log |-> <<>>, extracted |-> <<>>,
     changed |-> FALSE, previous |-> EmptyMap, processed |-> {}]

scanIdleVars == <<filename, date_range, target_month, travel_month,
                  available_rosters, matching_roster>>

InitPipeline ==
    /\ pc = "idle"
    /\ raw_dir \in RawDirs
    /\ \E out \in OutputDirs :
          /\ roster_index = out.roster_index
          /\ by_month = out.by_month
          /\ shards = out.shards
    /\ travel_data = [state |-> "absent"]
    /\ run = NoRun
    /\ writers = EmptyMap
    /\ records = <<>>
    /\ summary = EmptyMap
    /\ indexes = EmptyMap
    /\ travel_records = <<>>
    /\ call = NoCall
    /\ ingested = EmptyMap
    /\ ingests = 0
    /\ filename = None
    /\ date_range = NoRange
    /\ target_month = None
    /\ travel_month = None
    /\ available_rosters = EmptyMap
    /\ matching_roster = None

\* process_all_files up to phase 1: without the raw directory it returns
\* False at once; the directory is scanned; without a roster or travel file
\* it returns False.
StartRun ==
    /\ pc = "idle" \/ (pc = "done" /\ run.number < MaxRuns)
    /\ \E rosters \in {IF raw_dir.exists THEN roster_months(raw_dir) ELSE <<>>},
          travel \in {IF raw_dir.exists THEN all_travel_files(raw_dir) ELSE <<>>} :
          \E started \in {[number |-> run.number + 1, status |-> "running",
                           rosters |-> rosters, travel |-> travel,
                           rostersDone |-> 0, travelDone |-> 0,
                           log |-> IF raw_dir.exists THEN <<[event |-> "scan"]>> ELSE <<>>,
                           extracted |-> <<>>, changed |-> run.changed,
                           previous |-> Outputs, processed |-> run.processed]} :
             IF ~raw_dir.exists \/ Len(rosters) + Len(travel) = 0
             THEN /\ run' = [started EXCEPT !.status = "failure"]
                  /\ pc' = "done"
             ELSE /\ run' = started
                  /\ pc' = Phase(0, 0, rosters, travel)
    /\ UNCHANGED <<raw_dir, shards, travel_data, writers>>
    /\ UNCHANGED scanIdleVars
    /\ UNCHANGED rosterVars
    /\ UNCHANGED mergeVars

\* Phase 1, one roster file: process_roster writes the month file and
\* updates the index, or returns before writing when the file yields no
\* record.
IngestRoster ==
    /\ pc = "rosters"
    /\ LET month == run.rosters[run.rostersDone + 1]
           file == raw_dir.rosters[month]
       IN /\ IF file.readable
             THEN /\ by_month' = MapSet(by_month, month,
                                        [month |-> month, rosterFile |-> RosterFilename(month),
                                         processedAt |-> run.number,
                                         employees |-> file.content,
                                         count |-> Cardinality(DOMAIN file.content)])
                  /\ roster_index' = update_roster_index(roster_index, month,
                                                         RosterFilename(month),
                                                         file.content, run.number)
             ELSE UNCHANGED <<by_month, roster_index>>
          /\ run' = [run EXCEPT !.rostersDone = @ + 1,
                                !.log = Append(@, [event |-> "roster", month |-> month,
                                                   written |-> file.readable])]
          /\ pc' = Phase(run.rostersDone + 1, run.travelDone, run.rosters, run.travel)
    /\ UNCHANGED <<raw_dir, shards, travel_data, writers>>
    /\ UNCHANGED <<call, ingested, ingests>>
    /\ UNCHANGED scanIdleVars
    /\ UNCHANGED mergeVars

\* Phase 2, one travel file: process_alibaba, process_ctrip or
\* process_zaitu. A file without a target month is passed over; the
\* employees are loaded, which may raise; a file without records is left
\* without writing; else the by-month file of the source and month is
\* written.
ProcessVendorFile ==
    /\ pc = "vendors"
    /\ LET info == run.travel[run.travelDone + 1]
           month == info.target_month
           loaded == load_employee_index(roster_index, by_month, month)
           recs == process_file(info, loaded.employees)
           event == [event |-> "vendor", filename |-> info.filename]
           next == Phase(run.rostersDone, run.travelDone + 1, run.rosters, run.travel)
       IN IF month = None \/ month = <<>>
          THEN /\ run' = [run EXCEPT !.travelDone = @ + 1,
                                     !.log = Append(@, event @@ [outcome |-> "no month"])]
               /\ pc' = next
               /\ UNCHANGED shards
          ELSE IF loaded.raised
          THEN /\ run' = [run EXCEPT !.status = "raised",
                                     !.log = Append(@, event @@ [outcome |-> "raised"])]
               /\ pc' = "done"
               /\ UNCHANGED shards
          ELSE IF recs = <<>>
          THEN /\ run' = [run EXCEPT !.travelDone = @ + 1,
                                     !.log = Append(@, event @@ [outcome |-> "no records"])]
               /\ pc' = next
               /\ UNCHANGED shards
          ELSE /\ \E position \in ShardPlaces(shards, ShardName(info.source, month)) :
                     shards' = WriteShard(shards, ShardOf(info, recs, run.number), position)
               /\ run' = [run EXCEPT !.travelDone = @ + 1,
                                     !.log = Append(@, event @@ [outcome |-> "written"]),
                                     !.extracted = Append(@, [filename |-> info.filename,
                                                              records |-> recs])]
               /\ pc' = next
    /\ UNCHANGED <<raw_dir, travel_data, writers>>
    /\ UNCHANGED rosterVars
    /\ UNCHANGED scanIdleVars
    /\ UNCHANGED mergeVars

\* The names of the files of the raw directory, as update_processed_metadata
\* records them.
RawNames ==
    {RosterFilename(m) : m \in DOMAIN raw_dir.rosters} \cup {f.name : f \in raw_dir.travel}

\* Phase 3: merge_data and the end of process_all_files. Without a by-month
\* directory or without records it returns False; else travel-data.json is
\* written and the processing metadata updated.
Merge ==
    /\ pc = "merge"
    /\ LET merged_data == merge_monthly_data(Glob(shards, by_month))
           event == [event |-> "merge"]
       IN IF (shards = <<>> /\ by_month = EmptyMap) \/ merged_data.records = <<>>
          THEN /\ run' = [run EXCEPT !.status = "failure", !.log = Append(@, event)]
               /\ UNCHANGED <<travel_data, records, summary, indexes>>
          ELSE /\ records' = merged_data.records
               /\ summary' = build_summary(merged_data.records)
               /\ indexes' = build_indexes(merged_data.records)
               /\ travel_data' = [state |-> "json", lastUpdate |-> run.number,
                                  months |-> merged_data.months,
                                  sources |-> merged_data.sources,
                                  roster |-> IF roster_index.state = "json"
                                             THEN roster_index ELSE EmptyMap]
               /\ run' = [run EXCEPT !.status = "success", !.log = Append(@, event),
                                     !.processed = RawNames]
    /\ pc' = "done"
    /\ UNCHANGED <<raw_dir, shards, writers, travel_records>>
    /\ UNCHANGED rosterVars
    /\ UNCHANGED scanIdleVars

\* Between two runs a travel file is taken out of the raw directory, or
\* replaced by a file that cannot be read.
ChangeRaw ==
    /\ pc = "done"
    /\ run.number < MaxRuns
    /\ ~run.changed
    /\ raw_dir.exists
    /\ \E f \in raw_dir.travel :
          \/ raw_dir' = [raw_dir EXCEPT !.travel = @ \ {f}]
          \/ /\ f.rows.readable
             /\ raw_dir' = [raw_dir EXCEPT !.travel = (@ \ {f}) \cup {[f EXCEPT !.rows = Unreadable]}]
    /\ run' = [run EXCEPT !.changed = TRUE]
    /\ UNCHANGED <<pc, shards, travel_data, writers>>
    /\ UNCHANGED rosterVars
    /\ UNCHANGED scanIdleVars
    /\ UNCHANGED mergeVars

NextPipeline == StartRun \/ IngestRoster \/ ProcessVendorFile \/ Merge \/ ChangeRaw

SpecPipeline == InitPipeline /\ [][NextPipeline]_vars

(***************************************************************************)
(* Properties of the runs                                                  *)
(***************************************************************************)
Succeeded == pc = "done" /\ run.status = "success"

\* The by-month file a travel file of the run writes to.
ShardWritten(info) == ShardName(info.source, info.target_month)

\* C21: after a run every record extracted from a travel file in that run
\* is exactly once in the records of the merged dataset, and no two travel
\* files of the run have written the same by-month file.
C21_NoRecordLost ==
    Succeeded =>
        /\ \A i \in 1..Len(run.extracted) :
              \A k \in 1..Len(run.extracted[i].records) :
                 Occurrences(records, run.extracted[i].records[k]) = 1
        /\ \A i, j \in 1..Len(run.travel) :
              (/\ i < j
               /\ \E e \in 1..Len(run.extracted) :
                     run.extracted[e].filename = run.travel[i].filename
               /\ \E e \in 1..Len(run.extracted) :
                     run.extracted[e].filename = run.travel[j].filename)
              => ShardWritten(run.travel[i]) # ShardWritten(run.travel[j])

\* The record lists of the first n travel files of by-month that can be
\* read, one after the other.
RECURSIVE ShardRecords(_)
ShardRecords(n) ==
    IF n = 0 THEN <<>>
    ELSE ShardRecords(n - 1)
         \o (IF shards[n].state = "json" THEN shards[n].records ELSE <<>>)

\* C22: the records of the merged dataset are the record lists of the
\* by-month files one after the other, every record with every field as the
\* file holds it (a price is not rounded), and the summary is built from
\* these records: its total is the sum of their amounts rounded to two
\* decimals.
C22_RecordsUnchanged ==
    Succeeded =>
        /\ records = ShardRecords(Len(shards))
        /\ summary.totalAmount = Round2(SumOfAmounts(1, Len(records)))
        /\ summary.totalRecords = Len(records)

\* Two by-month files are merged, a price is not a whole number of
\* hundredths and the total of the summary is rounded.
C22_Witness ==
    /\ Succeeded
    /\ Cardinality({n \in 1..Len(shards) : shards[n].state = "json"}) >= 2
    /\ \E i \in 1..Len(records) : records[i].price % 10 # 0
    /\ summary.totalAmount # SumOfAmounts(1, Len(records))

\* A run has ended that follows another run on the same raw directory.
SecondRunDone == pc = "done" /\ run.number >= 2 /\ ~run.changed

\* C23: a run that follows a run on an unchanged raw directory leaves the
\* roster index (months, counts, allEmployees with departments and
\* latestRecord) and the merged dataset (months, sources, records, summary,
\* indexes) as the run before left them, the times of processing apart.
C23_Idempotent ==
    SecondRunDone => Outputs = run.previous

\* The second run has ingested two rosters that differ on an employee,
\* written a by-month file again and merged, at a later time than the first.
C23_Witness ==
    /\ SecondRunDone
    /\ run.status = "success"
    /\ Cardinality(DOMAIN roster_index.months) = 2
    /\ \E n \in DOMAIN roster_index.allEmployees :
          /\ n \in DOMAIN by_month[Nov2025Key].employees
          /\ by_month[Nov2025Key].employees[n].deptLevel1 # roster_index.allEmployees[n].deptLevel1
    /\ \E i \in 1..Len(shards) : shards[i].state = "json" /\ shards[i].processedAt = 2
    /\ travel_data.lastUpdate = 2
    /\ Len(records) >= 2

\* The run has written or scanned nothing.
NothingDone ==
    /\ run.log = <<>>
    /\ Outputs = run.previous

\* C24: a run ends with failure status exactly when the raw directory is
\* missing, and then at once, with nothing scanned and nothing written; a
\* run over an existing raw directory ends with success, whatever files it
\* passed over.
C24_FailureOnlyWithoutDirectory ==
    pc = "done" =>
        /\ run.status # "success" <=> ~raw_dir.exists
        /\ ~raw_dir.exists => NothingDone

\* A travel file of the run with a target month and rows that can be read.
GoodTravelFile(info) == info.target_month # None /\ info.rows.readable

\* A run over a raw directory with files has ended, on an output directory
\* whose roster_index.json was absent or readable when the run began.
RunEnded ==
    /\ pc = "done"
    /\ Len(run.rosters) + Len(run.travel) > 0
    /\ run.previous.roster_index.state # "corrupt"

\* C25: whatever roster file, travel file or by-month file cannot be read
\* and whatever travel file has no date in its name, the run takes every
\* roster file and every travel file in turn, writes the records of every
\* travel file that can be read and has a month, and merges.
C25_BatchResilience ==
    RunEnded =>
        /\ run.rostersDone = Len(run.rosters)
        /\ run.travelDone = Len(run.travel)
        /\ run.log[Len(run.log)].event = "merge"
        /\ \A t \in 1..Len(run.travel) :
              GoodTravelFile(run.travel[t]) =>
                 \E e \in 1..Len(run.extracted) :
                    run.extracted[e].filename = run.travel[t].filename

\* The steps of the run so far that took a file of that kind.
EventsOf(kind) == {i \in 1..Len(run.log) : run.log[i].event = kind}

\* C26: within a run every roster file is ingested (its month file written
\* and the index updated, when it can be read) before any travel file is
\* processed, merge_data starts only when every travel file has been
\* processed, and nothing is processed after the merge.
C26_PhaseOrder ==
    /\ \A i \in EventsOf("vendor") :
          /\ Cardinality({j \in EventsOf("roster") : j < i}) = Len(run.rosters)
          /\ \A j \in EventsOf("roster") : j < i
    /\ \A i \in EventsOf("merge") :
          /\ Cardinality({j \in EventsOf("roster") : j < i}) = Len(run.rosters)
          /\ Cardinality({j \in EventsOf("vendor") : j < i}) = Len(run.travel)
          /\ i = Len(run.log)
    /\ pc \in {"vendors", "merge"} =>
          \A m \in DOMAIN raw_dir.rosters :
             raw_dir.rosters[m].readable =>
                /\ m \in DOMAIN by_month
                /\ by_month[m].employees = raw_dir.rosters[m].content
                /\ m \in DOMAIN roster_index.months

\* A run with two rosters and two travel files has merged.
C26_Witness ==
    /\ pc = "done"
    /\ Cardinality(EventsOf("roster")) = 2
    /\ Cardinality(EventsOf("vendor")) = 2
    /\ Cardinality(EventsOf("merge")) = 1
    /\ \E m \in DOMAIN raw_dir.rosters : raw_dir.rosters[m].readable

(***************************************************************************)
(* Two update_roster_index calls at the same time on one index file        *)
(* (process_roster.py)                                                     *)
(***************************************************************************)
Writers == {"first", "second"}

\* The index file before the calls: absent, unreadable, or holding an
\* earlier month.
Oct2025Key == MonthKey(2025, 10)

EarlierIndex ==
    [state |-> "json",
     months |-> (Oct2025Key :> [file |-> RosterFilename(Oct2025Key), processedAt |-> 0,
                                count |-> 1]),
     allEmployees |-> (Zhao :> [deptLevel1 |-> Tech, deptLevel2 |-> <<"D">>,
                                deptLevel3 |-> <<>>, latestRecord |-> Oct2025Key])]

\* The snapshots the two calls bring.
Snapshots == {c.content : c \in {r \in RosterContents : r.readable}}

InitConcurrent ==
    /\ pc = "concurrent"
    /\ roster_index \in {AbsentIndex, CorruptIndex, EarlierIndex}
    /\ \E months \in {f \in [Writers -> PipelineMonths] : f["first"] # f["second"]},
          snapshots \in [Writers -> Snapshots] :
          writers = [w \in Writers |->
                        [at |-> "called", month |-> months[w],
                         employee_index |-> snapshots[w],
                         index |-> AbsentIndex, seen |-> 0, opened |-> 0,
                         wrote |-> 0]]
    /\ raw_dir = EmptyMap
    /\ shards = <<>>
    /\ travel_data = EmptyMap
    /\ run = EmptyMap
    /\ by_month = EmptyMap
    /\ call = NoCall
    /\ ingested = EmptyMap
    /\ ingests = 0
    /\ MergeIdle
    /\ filename = None
    /\ date_range = NoRange
    /\ target_month = None
    /\ travel_month = None
    /\ available_rosters = EmptyMap
    /\ matching_roster = None

\* The calls that have opened the index file for writing, and those that
\* have written it.
Opened == Cardinality({w \in Writers : writers[w].at \in {"opened", "written"}})

Written == Cardinality({w \in Writers : writers[w].at = "written"})

\* update_roster_index up to the end of the read of the index file.
ReadIndex ==
    /\ pc = "concurrent"
    /\ \E w \in Writers :
          /\ writers[w].at = "called"
          /\ writers' = [writers EXCEPT ![w].at = "read", ![w].index = roster_index,
                                        ![w].seen = Written, ![w].opened = Opened]
    /\ UNCHANGED <<pc, roster_index, raw_dir, shards, travel_data, run>>
    /\ UNCHANGED <<by_month, call, ingested, ingests>>
    /\ UNCHANGED scanIdleVars
    /\ UNCHANGED mergeVars

\* open(index_path, 'w'): the file is empty until the dump.
OpenIndex ==
    /\ pc = "concurrent"
    /\ \E w \in Writers :
          /\ writers[w].at = "read"
          /\ roster_index' = CorruptIndex
          /\ writers' = [writers EXCEPT ![w].at = "opened"]
    /\ UNCHANGED <<pc, raw_dir, shards, travel_data, run>>
    /\ UNCHANGED <<by_month, call, ingested, ingests>>
    /\ UNCHANGED scanIdleVars
    /\ UNCHANGED mergeVars

\* json.dump of the index the call read, updated.  A dump over the dump of
\* a call that wrote after this one opened the file starts at offset 0 of
\* a file that is not empty: the file ends as this call's index, or as this
\* call's text followed by the tail of the other, which json.load rejects.
WriteIndex ==
    /\ pc = "concurrent"
    /\ \E w \in Writers :
          /\ writers[w].at = "opened"
          /\ \E updated \in {update_roster_index(writers[w].index, writers[w].month,
                                                 RosterFilename(writers[w].month),
                                                 writers[w].employee_index, Written + 1)} :
                roster_index' \in (IF roster_index.state = "json"
                                   THEN {updated, CorruptIndex} ELSE {updated})
          /\ writers' = [writers EXCEPT ![w].at = "written", ![w].wrote = Written + 1]
    /\ UNCHANGED <<pc, raw_dir, shards, travel_data, run>>
    /\ UNCHANGED <<by_month, call, ingested, ingests>>
    /\ UNCHANGED scanIdleVars
    /\ UNCHANGED mergeVars

NextConcurrent == ReadIndex \/ OpenIndex \/ WriteIndex

SpecConcurrent == InitConcurrent /\ [][NextConcurrent]_vars

\* Both calls have returned.
BothWritten == pc = "concurrent" /\ \A w \in Writers : writers[w].at = "written"

\* The call that wrote the index file first, and the one that wrote it last.
EarlierWriter == CHOOSE w \in Writers : writers[w].wrote = 1

LaterWriter == CHOOSE w \in Writers : writers[w].wrote = 2

\* Both calls read the index file before either opened it for writing.
Interleaved == \A w \in Writers : writers[w].opened = 0

\* The later writer read what the earlier writer had written.
Serialized == writers[LaterWriter].seen = 1

\* C27: when the two calls both read the index file before either writes
\* it, the index file ends without the month of the call that wrote first,
\* and with an employee of that call's snapshot only if the later call or
\* the index file before the calls holds the name; when the calls are
\* serialized the index file ends with both months and every employee of
\* both snapshots.
C27_LostUpdate ==
    BothWritten =>
        /\ Interleaved =>
              /\ writers[EarlierWriter].month \notin DOMAIN roster_index.months
              /\ \A n \in DOMAIN writers[EarlierWriter].employee_index :
                    n \in DOMAIN roster_index.allEmployees =>
                       \/ n \in DOMAIN writers[LaterWriter].employee_index
                       \/ n \in DOMAIN writers[LaterWriter].index.allEmployees
        /\ Serialized =>
              /\ roster_index.state = "json"
              /\ \A w \in Writers : writers[w].month \in DOMAIN roster_index.months
              /\ \A w \in Writers : \A n \in DOMAIN writers[w].employee_index :
                    n \in DOMAIN roster_index.allEmployees

\* A lost update: both calls read first, and the index file ends without
\* the month and without an employee of the call that wrote first.
C27_Witness ==
    /\ BothWritten
    /\ Interleaved
    /\ writers[EarlierWriter].month \notin DOMAIN roster_index.months
    /\ \E n \in DOMAIN writers[EarlierWriter].employee_index :
          n \notin DOMAIN roster_index.allEmployees

\* The months of the travel files of by-month whose records were merged.
MergedShardMonths == {shards[i].month : i \in {j \in 1..Len(shards) : shards[j].state = "json"}}

\* C28: the months of the merged dataset are the months of the travel files
\* of by-month whose records were merged, so that a month with a roster
\* snapshot and no travel file is not among them.
C28_MonthsOfShards ==
    Succeeded =>
        /\ travel_data.months = Sorted(MergedShardMonths)
        /\ \A m \in DOMAIN by_month :
              m \notin MergedShardMonths =>
                 \A i \in 1..Len(travel_data.months) : travel_data.months[i] # m

\* C29: the records of the merged dataset a run produces are records the
\* run extracted from the travel files of the raw directory.
C29_OnlyThisRun ==
    Succeeded =>
        \A k \in 1..Len(records) :
           \E i \in 1..Len(run.extracted) :
              /\ \E t \in 1..Len(run.travel) :
                    run.travel[t].filename = run.extracted[i].filename
              /\ \E r \in 1..Len(run.extracted[i].records) :
                    run.extracted[i].records[r] = records[k]

====
